---------------------------- MODULE Spec2Model ----------------------------
(***************************************************************************)
(* A model of the PDF classification and invoice extraction pipeline:      *)
(*   src/src/pdf_extract.rs        classifier and process_pdfs             *)
(*   src/src/llm_extract.rs        the LLM extraction adapter              *)
(*   src/src/heuristics/generic.rs the regex heuristic extractor           *)
(*   src/src/message_db.rs         the attachment store                    *)
(*                                                                         *)
(* Strings are sequences of characters.  A character is a TLA+ string: an  *)
(* ASCII character is itself ("A", " ", "\n"), a non-ASCII character has a  *)
(* name ("dotless_i").  Byte lengths and upper-casing follow UTF-8 and     *)
(* Unicode, because the source indexes strings by byte.                    *)
(***************************************************************************)
EXTENDS Integers, Sequences, FiniteSets, TLC

VARIABLES
    backend,    \* LlmSection.backend of the run
    api_key,    \* TRUE iff the LLM_API_KEY environment variable is set
    atts,       \* the attachments table: id -> row
    unprocessed,  \* run_pdf_extraction: the ids its last run had to classify
    db,         \* the store besides attachments: schema, messages, processed_messages
    call,       \* the last call on the store of the fetch phase and its result
    entry,      \* the entry point being executed
    pc,         \* its position: "idle", "health", "loop", "await", "done"
    todo,       \* run_llm_extraction: the text attachments still to visit
    net,        \* the network requests issued by the run, in order
    heur_run,   \* ids on which heuristics::extract_invoice was called
    llm_res,    \* id -> outcome of extract_invoice_with_llm, for visited ids
    ret,        \* what the entry point returned: "none", "Ok", "Err"
    llm_reads,  \* calls of get_text_attachments made by run_llm_extraction
    health,     \* outcome of the run's health probe, "none" before it ends
    cdoc,       \* classifier specification: the document under test
    cverdict,   \* classifier specification: the verdict returned for cdoc
    htext,      \* heuristics specification: the input text
    hrec        \* heuristics specification: outcome of extract_invoice(htext)

pipeVars == <<backend, api_key, atts, unprocessed, db, call, entry, pc, todo,
              net, heur_run, llm_res, ret, llm_reads, health>>
classVars == <<cdoc, cverdict>>
heurVars == <<htext, hrec>>
vars == <<backend, api_key, atts, unprocessed, db, call, entry, pc, todo, net,
          heur_run, llm_res, ret, llm_reads, health, cdoc, cverdict, htext, hrec>>

-----------------------------------------------------------------------------
(* Bounds of the model.                                                    *)

MaxAtts == 2       \* attachments in the store
MaxPages == 10     \* pages of a document under classification
MaxAscii == 31     \* one-byte non-whitespace characters of an extracted text
MaxMulti == 10     \* multi-byte non-whitespace characters of an extracted text

-----------------------------------------------------------------------------
(* Option<T>.                                                              *)

None == [some |-> FALSE, v |-> <<>>]
Some(x) == [some |-> TRUE, v |-> x]

(* Characters.                                                             *)

UpperLetters == {"A","B","C","D","E","F","G","H","I","J","K","L","M",
                 "N","O","P","Q","R","S","T","U","V","W","X","Y","Z"}
LowerLetters == {"a","b","c","d","e","f","g","h","i","j","k","l","m",
                 "n","o","p","q","r","s","t","u","v","w","x","y","z"}
Digits == {"0","1","2","3","4","5","6","7","8","9"}
AsciiSpace == {" ", "\n", "\t"}
AsciiPunct == {".", ",", ":", "&", "-", "/", "$", "'", "{", "}", "_",
               "[", "]", "\"", "backtick"}     \* backtick: U+0060
Ascii == UpperLetters \cup LowerLetters \cup Digits \cup AsciiSpace \cup AsciiPunct

\* Non-ASCII characters of the model, with their UTF-8 length:
\*   e_acute U+00E9, E_ACUTE U+00C9, dotless_i U+0131, n_apos U+0149,
\*   mod_apos U+02BC, iota_dt U+0390, IOTA U+0399, comb_dia U+0308,
\*   comb_acute U+0301, nbsp U+00A0 (White_Space), cjk U+8ACB.
TwoByte == {"e_acute", "E_ACUTE", "dotless_i", "n_apos", "mod_apos",
            "iota_dt", "IOTA", "comb_dia", "comb_acute", "nbsp"}
ThreeByte == {"cjk"}
Chars == Ascii \cup TwoByte \cup ThreeByte

\* char::len_utf8
len_utf8(c) == IF c \in TwoByte THEN 2 ELSE IF c \in ThreeByte THEN 3 ELSE 1

\* char::is_whitespace
is_whitespace(c) == c \in AsciiSpace \cup {"nbsp"}

RECURSIVE RangeLen(_, _, _)
\* the bytes of the characters lo..hi of s, by halving
RangeLen(s, lo, hi) ==
    IF lo > hi THEN 0
    ELSE IF lo = hi THEN len_utf8(s[lo])
    ELSE LET mid == (lo + hi) \div 2
         IN RangeLen(s, lo, mid) + RangeLen(s, mid + 1, hi)

SumLen(s) == RangeLen(s, 1, Len(s))

\* str::len: the length in bytes
str_len(s) == SumLen(s)

RECURSIVE Repeat(_, _)
Repeat(c, n) == IF n = 0 THEN <<>> ELSE <<c>> \o Repeat(c, n - 1)

-----------------------------------------------------------------------------
(* The classifier, src/src/pdf_extract.rs.  A document stands for the PDF  *)
(* bytes through what the two libraries make of them: whether              *)
(* lopdf::Document::load_mem parses them, the pages it finds, and what     *)
(* pdf_extract::extract_text_from_mem returns.                             *)

MIN_TEXT_CHARS == 30
RatioNum == 8      \* the threshold 0.8 of looks_like_scanned, as 8/10
RatioDen == 10

Page(r, f, x) == [readable |-> r, fonts |-> f, xobjects |-> x]
ImagePage == Page(TRUE, 0, 1)
FontPage == Page(TRUE, 1, 0)
MixedPage == Page(TRUE, 1, 1)
BlankPage == Page(TRUE, 0, 0)
BrokenPage == Page(FALSE, 0, 1)   \* its object is missing or is no dictionary

Doc(l, p, t) == [load_ok |-> l, pages |-> p, text |-> t]

has_fonts(p) == p.fonts > 0
has_images(p) == p.xobjects > 0

image_only_pages(pages) ==
    Cardinality({i \in DOMAIN pages :
        pages[i].readable /\ has_images(pages[i]) /\ ~has_fonts(pages[i])})

\* ratio >= 0.8 with ratio = image_only_pages as f64 / total as f64.  The
\* division is correctly rounded and 0.8 is the double nearest to 4/5, so for
\* page counts below 2^50 the comparison is the exact one on the rationals.
LooksLikeScannedStrict(d) ==
    IF Len(d.pages) = 0 THEN FALSE
    ELSE image_only_pages(d.pages) * RatioDen > Len(d.pages) * RatioNum
\* a variant that takes a document without pages for a scanned one
LooksLikeScannedNoPages(d) ==
    IF Len(d.pages) = 0 THEN TRUE
    ELSE image_only_pages(d.pages) * RatioDen >= Len(d.pages) * RatioNum
looks_like_scanned(d) ==
    IF Len(d.pages) = 0 THEN FALSE
    ELSE image_only_pages(d.pages) * RatioDen >= Len(d.pages) * RatioNum

ErrText == <<"F","a","i","l","e","d">>   \* format!("Failed to parse PDF: {e}")

\* PdfContent, with the phases that ran to produce it.
Content(tag, text, structural, textual) ==
    [tag |-> tag, text |-> text, structural |-> structural, textual |-> textual]

meaningful(text) == SelectSeq(text, LAMBDA c : ~is_whitespace(c))

ExtractTextNoParseCheck(d) ==
    IF d.text.some
    THEN IF str_len(meaningful(d.text.v)) < MIN_TEXT_CHARS
         THEN Content("ScannedImage", <<>>, TRUE, TRUE)
         ELSE Content("Text", d.text.v, TRUE, TRUE)
    ELSE Content("ScannedImage", <<>>, TRUE, TRUE)
ExtractTextErrOnFail(d) ==
    IF ~d.load_ok THEN Content("Error", ErrText, FALSE, FALSE)
    ELSE IF looks_like_scanned(d) THEN Content("ScannedImage", <<>>, TRUE, FALSE)
    ELSE IF d.text.some
    THEN IF str_len(meaningful(d.text.v)) < MIN_TEXT_CHARS
         THEN Content("ScannedImage", <<>>, TRUE, TRUE)
         ELSE Content("Text", d.text.v, TRUE, TRUE)
    ELSE Content("Error", ErrText, TRUE, TRUE)
extract_text_from_pdf(d) ==
    IF ~d.load_ok THEN Content("Error", ErrText, FALSE, FALSE)
    ELSE IF looks_like_scanned(d) THEN Content("ScannedImage", <<>>, TRUE, FALSE)
    ELSE IF d.text.some
    THEN IF str_len(meaningful(d.text.v)) < MIN_TEXT_CHARS
         THEN Content("ScannedImage", <<>>, TRUE, TRUE)
         ELSE Content("Text", d.text.v, TRUE, TRUE)
    ELSE Content("ScannedImage", <<>>, TRUE, TRUE)

-----------------------------------------------------------------------------
(* The attachments table, src/src/message_db.rs.                           *)

\* A row of the attachments table (StoredAttachment).  content_type "NULL"
\* is the SQL NULL that fetch_and_store inserts (content_type: None).
Row(doc) == [pdf_data |-> doc, is_processed |-> FALSE,
             content_type |-> "NULL", extracted_text |-> None]

\* MessageStore::set_attachment_extraction
\* a variant of set_attachment_extraction whose row also has a column for
\* the extraction result
SetExtractionWithRecord(a, id, ct, text) ==
    [a EXCEPT ![id] = [pdf_data |-> @.pdf_data, content_type |-> ct,
                       extracted_text |-> text, is_processed |-> TRUE,
                       invoice |-> None]]

set_attachment_extraction(a, id, ct, text) ==
    [a EXCEPT ![id] = [@ EXCEPT !.content_type = ct,
                                !.extracted_text = text,
                                !.is_processed = TRUE]]

RECURSIVE DescIds(_)
\* The ids of a set, greatest first: ORDER BY created_at DESC, with rows
\* created in the order of their AUTOINCREMENT ids.
DescIds(S) ==
    IF S = {} THEN <<>>
    ELSE LET m == CHOOSE x \in S : \A y \in S : y <= x
         IN <<m>> \o DescIds(S \ {m})

\* MessageStore::get_unprocessed_attachments
\* a variant of get_unprocessed_attachments without the is_processed filter
GetAllAttachments(a) == DescIds(DOMAIN a)

get_unprocessed_attachments(a) ==
    DescIds({i \in DOMAIN a : ~a[i].is_processed})

\* MessageStore::get_text_attachments
get_text_attachments(a) ==
    DescIds({i \in DOMAIN a : a[i].content_type = "text"})

-----------------------------------------------------------------------------
(* process_pdfs and its phases, src/src/pdf_extract.rs.                    *)

\* The store after one iteration of the loop of run_pdf_extraction.
classify_one(a, id) ==
    LET c == extract_text_from_pdf(a[id].pdf_data) IN
    IF c.tag = "Text" THEN set_attachment_extraction(a, id, "text", Some(c.text))
    ELSE IF c.tag = "ScannedImage"
         THEN set_attachment_extraction(a, id, "scanned", None)
         ELSE set_attachment_extraction(a, id, "error", Some(c.text))

RECURSIVE ClassifyAll(_, _)
ClassifyAll(a, ids) ==
    IF ids = <<>> THEN a ELSE ClassifyAll(classify_one(a, Head(ids)), Tail(ids))

\* run_pdf_extraction: the store it leaves.
run_pdf_extraction(a) == ClassifyAll(a, get_unprocessed_attachments(a))

\* run_heuristics: the ids on which extract_invoice is called.
run_heuristics(a) ==
    {i \in DOMAIN a : a[i].content_type = "text" /\ a[i].extracted_text.some}

-----------------------------------------------------------------------------
(* The LLM adapter, src/src/llm_extract.rs.                                *)

Backends == {"Ollama", "Cliproxy", "Remote", "Heuristics"}

\* resolve_endpoint: TRUE iff it returns Ok(ResolvedEndpoint).
ResolveIgnoresKey(b, key) == b # "Heuristics"
ResolveAcceptsHeuristics(b, key) ==
    IF b = "Remote" THEN key ELSE TRUE
resolve_endpoint(b, key) ==
    IF b \in {"Ollama", "Cliproxy"} THEN TRUE
    ELSE IF b = "Remote" THEN key
    ELSE FALSE

\* What check_ollama_health can see: a success status, another status, or a
\* transport error (the 3 s timeout included).
HealthOutcomes == {"success", "status", "transport"}
check_ollama_health(o) == o = "success"

\* What extract_invoice_with_llm can see of one completion request.
\*   transport: send() or json() fails;  status: a non-success status;
\*   empty: choices is empty;  nojson: extract_json_object fails;
\*   schema: serde_json::from_str fails;  invoice: an InvoiceData is parsed.
Responses == {"transport", "status", "empty", "nojson", "schema", "invoice"}

\* extract_invoice_with_llm: "Ok" or "Err" for a response.
extract_invoice_with_llm(r) == IF r = "invoice" THEN "Ok" ELSE "Err"

Request(kind, id) == [kind |-> kind, att |-> id]

-----------------------------------------------------------------------------
(* The completion request, extract_invoice_with_llm in                     *)
(* src/src/llm_extract.rs.  A long text is a sequence of spans, each a     *)
(* character repeated n times.                                             *)

max_chars == 12000

Span(c, n) == [c |-> c, n |-> n]

RECURSIVE SpanBytes(_)
\* str::len of a text of spans: its bytes
SpanBytes(t) ==
    IF t = <<>> THEN 0 ELSE len_utf8(Head(t).c) * Head(t).n + SpanBytes(Tail(t))

RECURSIVE SpanChars(_)
\* the number of characters of a text of spans
SpanChars(t) == IF t = <<>> THEN 0 ELSE Head(t).n + SpanChars(Tail(t))

RECURSIVE SliceSpansTo(_, _)
\* &t[..b]: panics when b is past the end or inside a character
SliceSpansTo(t, b) ==
    IF b = 0 THEN [panic |-> FALSE, v |-> <<>>]
    ELSE IF t = <<>> THEN [panic |-> TRUE, v |-> <<>>]
    ELSE LET w == len_utf8(Head(t).c)
             hb == w * Head(t).n
         IN IF b >= hb
            THEN LET rest == SliceSpansTo(Tail(t), b - hb)
                 IN [panic |-> rest.panic,
                     v |-> IF rest.panic THEN <<>> ELSE <<Head(t)>> \o rest.v]
            ELSE IF b % w = 0
            THEN [panic |-> FALSE, v |-> <<Span(Head(t).c, b \div w)>>]
            ELSE [panic |-> TRUE, v |-> <<>>]

\* extract_invoice_with_llm, up to the request: the text embedded in the
\* user message, or a panic
request_text(extracted_text) ==
    IF SpanBytes(extracted_text) > max_chars
    THEN SliceSpansTo(extracted_text, max_chars)
    ELSE [panic |-> FALSE, v |-> extracted_text]

RECURSIVE SortedSeq(_)
\* the numbers of a set in increasing order
SortedSeq(S) ==
    IF S = {} THEN <<>>
    ELSE LET m == CHOOSE x \in S : \A y \in S : x <= y
         IN <<m>> \o SortedSeq(S \ {m})

\* a text of characters as a text of spans
Spans(text) ==
    LET starts == SortedSeq({i \in 1..Len(text) : i = 1 \/ text[i] # text[i - 1]})
    IN [k \in DOMAIN starts |->
           Span(text[starts[k]],
                (IF k < Len(starts) THEN starts[k + 1] ELSE Len(text) + 1)
                    - starts[k])]

-----------------------------------------------------------------------------
(* The pipeline as a state machine.  One action runs the code from one     *)
(* suspension point (a network await) to the next.  Store I/O is taken to  *)
(* succeed.                                                                *)

GarbageDoc == Doc(FALSE, <<>>, None)
ScanDoc == Doc(TRUE, <<ImagePage>>, None)
ShortDoc == Doc(TRUE, <<FontPage>>, Some(<<"a", " ", "b">>))
TextDoc == Doc(TRUE, <<FontPage, MixedPage>>, Some(Repeat("a", MIN_TEXT_CHARS)))
\* "a" followed by 6000 two-byte characters: byte max_chars is inside one
LongText == [i \in 1..6001 |-> IF i = 1 THEN "a" ELSE "e_acute"]
LongDoc == Doc(TRUE, <<FontPage>>, Some(LongText))
PipelineDocs == {GarbageDoc, ScanDoc, ShortDoc, TextDoc, LongDoc}

\* MessageStore::new: the store it opens. On a new file the attachments
\* table is created with content_type NOT NULL; on a file whose attachments
\* table lacks the column, the migration adds it as a nullable column.
MessageStore_new(old_file) ==
    [nullable_content_type |-> old_file,
     messages |-> <<>>,
     processed_messages |-> {}]

NoCall == [op |-> "none"]

\* no call of the fetch phase was made; process_pdfs reads and writes the
\* attachments table only, whose rows have a NULL content_type
StoreIdle == db = MessageStore_new(TRUE) /\ call = NoCall

Stores == UNION {[1..n -> {Row(d) : d \in PipelineDocs}] : n \in 0..MaxAtts}

SingleAtt == 0   \* the request of run_llm_extraction_single has no attachment

\* a variant of LlmReturns in which process_pdfs returns the error of
\* run_llm_extraction
LlmReturnsPropagates(e, r, a) ==
    /\ pc' = "done"
    /\ todo' = <<>>
    /\ ret' = r
    /\ heur_run' = heur_run

\* run_llm_extraction returns r; a is the store, e the entry point.
\* process_pdfs maps Ok to Ok(()) and Err to run_heuristics(&db)? and Ok(()).
LlmReturns(e, r, a) ==
    /\ pc' = "done"
    /\ todo' = <<>>
    /\ IF e = "process_pdfs"
       THEN /\ ret' = "Ok"
            /\ heur_run' = IF r = "Err" THEN heur_run \cup run_heuristics(a)
                           ELSE heur_run
       ELSE /\ ret' = r
            /\ heur_run' = heur_run

\* run_llm_extraction, after the health check: db.get_text_attachments()
LlmRead(a) ==
    /\ pc' = "loop"
    /\ todo' = get_text_attachments(a)
    /\ llm_reads' = llm_reads + 1
    /\ UNCHANGED <<net, heur_run, ret, llm_res>>

\* run_llm_extraction, up to its first await.
LlmBegin(e, a) ==
    IF ~resolve_endpoint(backend, api_key)
    THEN /\ LlmReturns(e, "Err", a)
         /\ UNCHANGED <<net, llm_reads, llm_res>>
    ELSE IF backend = "Ollama"
    THEN /\ pc' = "health"
         /\ net' = Append(net, Request("health", SingleAtt))
         /\ UNCHANGED <<todo, heur_run, ret, llm_reads, llm_res>>
    ELSE LlmRead(a)

\* process_pdfs
StartProcessPdfs ==
    /\ pc = "idle"
    /\ entry' = "process_pdfs"
    /\ unprocessed' = get_unprocessed_attachments(atts)
    /\ atts' = run_pdf_extraction(atts)
    /\ IF backend = "Heuristics"
       THEN /\ pc' = "done"
            /\ heur_run' = run_heuristics(atts')
            /\ ret' = "Ok"
            /\ UNCHANGED <<todo, net, llm_res, llm_reads>>
       ELSE LlmBegin("process_pdfs", atts')
    /\ UNCHANGED <<backend, api_key, db, call, health, classVars, heurVars>>

\* run_llm_extraction called on the store as it is
StartRunLlm ==
    /\ pc = "idle"
    /\ entry' = "run_llm_extraction"
    /\ LlmBegin("run_llm_extraction", atts)
    /\ UNCHANGED <<backend, api_key, atts, unprocessed, db, call, health, classVars, heurVars>>

\* run_llm_extraction_single, up to its first await
StartSingle ==
    /\ pc = "idle"
    /\ entry' = "run_llm_extraction_single"
    /\ IF ~resolve_endpoint(backend, api_key)
       THEN pc' = "done" /\ ret' = "Err" /\ net' = net
       ELSE IF backend = "Ollama"
       THEN pc' = "health" /\ ret' = ret
            /\ net' = Append(net, Request("health", SingleAtt))
       ELSE pc' = "await" /\ ret' = ret
            /\ net' = Append(net, Request("completion", SingleAtt))
    /\ UNCHANGED <<backend, api_key, atts, unprocessed, db, call, todo, heur_run, llm_res, llm_reads,
                   health, classVars, heurVars>>

\* The health probe ends with outcome o.
HealthResponse(o) ==
    /\ pc = "health"
    /\ health' = o
    /\ IF entry = "run_llm_extraction_single"
       THEN /\ IF check_ollama_health(o)
               THEN pc' = "await" /\ ret' = ret
                    /\ net' = Append(net, Request("completion", SingleAtt))
               ELSE pc' = "done" /\ ret' = "Err" /\ net' = net
            /\ UNCHANGED <<todo, heur_run, llm_res, llm_reads>>
       ELSE IF check_ollama_health(o)
            THEN LlmRead(atts)
            ELSE /\ LlmReturns(entry, "Err", atts)
                 /\ UNCHANGED <<net, llm_reads, llm_res>>
    /\ UNCHANGED <<backend, api_key, atts, unprocessed, db, call, entry, classVars, heurVars>>

\* run_llm_extraction: the head of one iteration of `for att in &text_attachments`
LoopStep ==
    /\ pc = "loop"
    /\ IF todo = <<>>
       THEN /\ LlmReturns(entry, "Ok", atts)
            /\ UNCHANGED <<net, llm_reads, llm_res>>
       ELSE IF ~atts[Head(todo)].extracted_text.some
       THEN /\ todo' = Tail(todo)
            /\ UNCHANGED <<pc, net, heur_run, ret, llm_reads, llm_res>>
       ELSE IF request_text(Spans(atts[Head(todo)].extracted_text.v)).panic
       THEN \* the slice of extract_invoice_with_llm panics: the process ends
            /\ pc' = "done"
            /\ ret' = "panic"
            /\ UNCHANGED <<todo, net, heur_run, llm_reads, llm_res>>
       ELSE /\ pc' = "await"
            /\ net' = Append(net, Request("completion", Head(todo)))
            /\ UNCHANGED <<todo, heur_run, ret, llm_reads, llm_res>>
    /\ UNCHANGED <<backend, api_key, atts, unprocessed, db, call, entry, health, classVars, heurVars>>

\* The completion request ends with response r.
CompletionResponse(r) ==
    /\ pc = "await"
    /\ IF entry = "run_llm_extraction_single"
       THEN /\ pc' = "done"
            /\ ret' = extract_invoice_with_llm(r)
            /\ UNCHANGED <<todo, llm_res>>
       ELSE /\ pc' = "loop"
            /\ llm_res' = llm_res @@ (Head(todo) :> extract_invoice_with_llm(r))
            /\ todo' = Tail(todo)
            /\ ret' = ret
    /\ UNCHANGED <<backend, api_key, atts, unprocessed, db, call, entry, net, heur_run, llm_reads,
                   health, classVars, heurVars>>

\* The process ends; the store stays for the next run.
Exit ==
    /\ pc = "done"
    /\ pc' = "idle"
    /\ entry' = "none"
    /\ todo' = <<>>
    /\ net' = <<>>
    /\ heur_run' = {}
    /\ llm_res' = <<>>
    /\ ret' = "none"
    /\ llm_reads' = 0
    /\ health' = "none"
    /\ UNCHANGED <<backend, api_key, atts, unprocessed, db, call, classVars, heurVars>>

ClassIdle == cdoc = GarbageDoc /\ cverdict = None
HeurIdle == htext = <<>> /\ hrec = None

Init ==
    /\ backend \in Backends
    /\ api_key \in BOOLEAN
    /\ atts \in Stores
    /\ unprocessed = <<>>
    /\ StoreIdle
    /\ entry = "none"
    /\ pc = "idle"
    /\ todo = <<>>
    /\ net = <<>>
    /\ heur_run = {}
    /\ llm_res = <<>>
    /\ ret = "none"
    /\ llm_reads = 0
    /\ health = "none"
    /\ ClassIdle
    /\ HeurIdle

Next ==
    \/ StartProcessPdfs
    \/ StartRunLlm
    \/ StartSingle
    \/ \E o \in HealthOutcomes : HealthResponse(o)
    \/ LoopStep
    \/ \E r \in Responses : CompletionResponse(r)
    \/ Exit

Spec == Init /\ [][Next]_vars

-----------------------------------------------------------------------------
(* Claims about the orchestration.                                         *)

Completions == {k \in DOMAIN net : net[k].kind = "completion"}
LlmBatch == entry \in {"process_pdfs", "run_llm_extraction"}

\* C1 (as claimed): when process_pdfs has finished a batch whose endpoint
\* resolved and passed the health check, the heuristic extractor has run on
\* every text document whose LLM extraction failed.
C1_FallbackPerDocument ==
    (pc = "done" /\ entry = "process_pdfs" /\ llm_reads > 0)
        => \A i \in DOMAIN llm_res : llm_res[i] = "Err" => i \in heur_run

\* C2: with backend Remote and no LLM_API_KEY, or backend Ollama and a failed
\* health probe, run_llm_extraction returns Err without reading the text
\* attachments and without issuing a completion request.
C2_BatchFatalBeforeDocuments ==
    (LlmBatch /\ (\/ backend = "Remote" /\ ~api_key
                  \/ backend = "Ollama" /\ health \in {"status", "transport"}))
        => /\ llm_reads = 0
           /\ Completions = {}
           /\ llm_res = <<>>
           /\ pc = "done"
           /\ entry = "run_llm_extraction" => ret = "Err"

\* C2 witness: run_llm_extraction has returned Err on a failed probe, or on
\* the missing key, with text attachments waiting in the store.
C2_Witness ==
    /\ entry = "run_llm_extraction"
    /\ ret = "Err"
    /\ get_text_attachments(atts) # <<>>
    /\ \/ backend = "Ollama" /\ health = "transport"
       \/ backend = "Remote" /\ ~api_key

\* C3: with backend Heuristics no request is ever issued; process_pdfs runs
\* the heuristic extractor on the text documents, and both LLM entry points
\* return Err at endpoint resolution.
C3_HeuristicsNoNetwork ==
    backend = "Heuristics"
        => /\ net = <<>>
           /\ llm_reads = 0
           /\ llm_res = <<>>
           /\ pc \in {"idle", "done"}
           /\ (pc = "done" /\ entry = "process_pdfs")
                => ret = "Ok" /\ heur_run = run_heuristics(atts)
           /\ (pc = "done" /\ entry # "process_pdfs")
                => ret = "Err" /\ heur_run = {}

\* C3 witness: an LLM entry point was called with backend Heuristics on a
\* store that holds text attachments, and returned.
C3_Witness ==
    /\ backend = "Heuristics"
    /\ pc = "done"
    /\ entry \in {"run_llm_extraction", "run_llm_extraction_single"}
    /\ get_text_attachments(atts) # <<>>

\* the completion requests issued for attachment i
RequestsFor(i) == {k \in Completions : net[k].att = i}

\* the text-classified documents that have extracted text
TextDocuments ==
    {i \in DOMAIN atts :
        atts[i].content_type = "text" /\ atts[i].extracted_text.some}

\* C17 (as claimed): in a batch run no document gets a second completion
\* request, and when a batch that reached its documents has ended, every
\* text-classified document with extracted text got exactly one.
C17_OneRequestPerDocument ==
    LlmBatch
        => /\ \A i \in DOMAIN atts : Cardinality(RequestsFor(i)) <= 1
           /\ (pc = "done" /\ llm_reads > 0)
                => \A i \in TextDocuments : Cardinality(RequestsFor(i)) = 1

\* The pipeline with the progress the code guarantees: the program takes
\* its own steps, and the health probe ends because of its 3 s timeout.
\* The completion request has no timeout (Client::new(), no .timeout() on
\* the request), so nothing makes its response arrive.  The stores hold
\* documents whose request can be built.
InitLive == Init /\ \A i \in DOMAIN atts : atts[i] # Row(LongDoc)

SpecLive ==
    /\ InitLive
    /\ [][Next]_vars
    /\ WF_vars(LoopStep)
    /\ WF_vars(\E o \in HealthOutcomes : HealthResponse(o))

\* C18 (as claimed): in a batch, a completion request that is waiting for
\* its response eventually ends, and the batch eventually finishes.
C18_CompletionEnds == (LlmBatch /\ pc = "await") ~> (pc = "done")

-----------------------------------------------------------------------------
(* The classifier on its own: extract_text_from_pdf applied to documents   *)
(* drawn from bounded sets.                                                *)

PipeIdle ==
    /\ backend = "Heuristics"
    /\ api_key = FALSE
    /\ atts = <<>>
    /\ unprocessed = <<>>
    /\ entry = "none"
    /\ pc = "idle"
    /\ todo = <<>>
    /\ net = <<>>
    /\ heur_run = {}
    /\ llm_res = <<>>
    /\ ret = "none"
    /\ llm_reads = 0
    /\ health = "none"

OtherPages == {FontPage, MixedPage, BlankPage, BrokenPage}

\* n pages of which k are image-only, the image-only pages first or last.
PageLists ==
    {Repeat(ImagePage, k) \o Repeat(o, n - k) :
        <<n, k, o>> \in {t \in (0..MaxPages) \X (0..MaxPages) \X OtherPages :
                            t[2] <= t[1]}}
    \cup
    {Repeat(o, n - k) \o Repeat(ImagePage, k) :
        <<n, k, o>> \in {t \in (0..MaxPages) \X (0..MaxPages) \X OtherPages :
                            t[2] <= t[1]}}

FewPageLists == {<<>>, <<FontPage>>, <<ImagePage, FontPage>>}

WhiteRuns == {<<>>, <<" ", "\n">>, <<"nbsp">>}

\* a one-byte characters, then white space, then m multi-byte characters
ExtractedTexts ==
    {Repeat("a", a) \o w \o Repeat(c, m) :
        <<a, m, c, w>> \in (0..MaxAscii) \X (0..MaxMulti)
                           \X {"e_acute", "cjk"} \X WhiteRuns}

FewTexts == {None, Some(<<"a", " ", "b">>), Some(Repeat("a", MIN_TEXT_CHARS))}

ClassDocs ==
    {Doc(FALSE, <<>>, t) : t \in FewTexts}
    \cup {Doc(TRUE, p, t) : <<p, t>> \in PageLists \X FewTexts}
    \cup {Doc(TRUE, p, Some(t)) : <<p, t>> \in FewPageLists \X ExtractedTexts}

\* extract_text_from_pdf(&bytes)
Classify ==
    /\ ~cverdict.some
    /\ cverdict' = Some(extract_text_from_pdf(cdoc))
    /\ UNCHANGED <<cdoc, pipeVars, heurVars>>

InitClassify ==
    /\ cdoc \in ClassDocs
    /\ cverdict = None
    /\ PipeIdle
    /\ StoreIdle
    /\ HeurIdle

NextClassify == Classify

SpecClassify == InitClassify /\ [][NextClassify]_vars

Verdict == cverdict.v

\* The pages of cdoc that are image-only: an XObject entry and no Font entry.
ImageOnly ==
    {i \in DOMAIN cdoc.pages :
        /\ cdoc.pages[i].readable
        /\ cdoc.pages[i].xobjects >= 1
        /\ cdoc.pages[i].fonts = 0}

\* C5: bytes that do not parse as a PDF container give Error, and the
\* textual phase is not attempted.
C5_GarbageIsError ==
    (cverdict.some /\ ~cdoc.load_ok)
        => Verdict.tag = "Error" /\ ~Verdict.textual

\* C5 witness: an unparsable document has been classified.
C5_Witness == cverdict.some /\ ~cdoc.load_ok /\ Verdict.tag = "Error"

\* C6: for a parsed document with n >= 1 pages of which k are image-only, the
\* verdict is ScannedImage without text extraction when k/n >= 0.80, and the
\* textual phase runs when k/n < 0.80.
C6_RatioThreshold ==
    (cverdict.some /\ cdoc.load_ok /\ Len(cdoc.pages) >= 1)
        => LET n == Len(cdoc.pages)
               k == Cardinality(ImageOnly)
           IN /\ 100 * k >= 80 * n
                    => Verdict.tag = "ScannedImage" /\ ~Verdict.textual
              /\ 100 * k < 80 * n => Verdict.textual

\* C6 witness: 9 image-only pages out of 10 were classified ScannedImage.
C6_Witness ==
    /\ cverdict.some
    /\ cdoc.load_ok
    /\ Len(cdoc.pages) = 10
    /\ Cardinality(ImageOnly) = 9
    /\ Verdict.tag = "ScannedImage"

\* C7 (as claimed): when parsing and text extraction both succeed, the
\* verdict is ScannedImage iff the text has fewer than 30 non-whitespace
\* characters, and otherwise Text carrying the full text.
C7_CharacterFloor ==
    (cverdict.some /\ Verdict.textual /\ cdoc.text.some)
        => LET count == Len(SelectSeq(cdoc.text.v,
                                      LAMBDA c : ~is_whitespace(c)))
           IN /\ Verdict.tag = "ScannedImage" <=> count < 30
              /\ count >= 30
                    => Verdict.tag = "Text" /\ Verdict.text = cdoc.text.v

\* C8: the verdict is Error iff the structural parse fails; a failed text
\* extraction on a parsed document gives ScannedImage.
C8_ErrorIffParseFails ==
    cverdict.some
        => /\ Verdict.tag = "Error" <=> ~cdoc.load_ok
           /\ (cdoc.load_ok /\ ~cdoc.text.some) => Verdict.tag = "ScannedImage"

\* C8 witness: the container parsed, the textual phase ran and text
\* extraction failed.
C8_Witness ==
    /\ cverdict.some
    /\ cdoc.load_ok
    /\ ~cdoc.text.some
    /\ Verdict.textual
    /\ Verdict.tag = "ScannedImage"

-----------------------------------------------------------------------------
(* Strings as the heuristics use them: str::to_uppercase, str::find and    *)
(* slicing by byte offset.                                                 *)

LowerSeq == <<"a","b","c","d","e","f","g","h","i","j","k","l","m",
              "n","o","p","q","r","s","t","u","v","w","x","y","z">>
UpperSeq == <<"A","B","C","D","E","F","G","H","I","J","K","L","M",
              "N","O","P","Q","R","S","T","U","V","W","X","Y","Z">>

\* char::to_uppercase: the characters a character upper-cases to
UpperOf ==
    [c \in Chars |->
        IF c \in LowerLetters
        THEN <<UpperSeq[CHOOSE i \in 1..26 : LowerSeq[i] = c]>>
        ELSE IF c = "e_acute" THEN <<"E_ACUTE">>
        ELSE IF c = "dotless_i" THEN <<"I">>
        ELSE IF c = "n_apos" THEN <<"mod_apos", "N">>
        ELSE IF c = "iota_dt" THEN <<"IOTA", "comb_dia", "comb_acute">>
        ELSE <<c>>]

\* the lower-case partner of an ASCII letter, for (?i) patterns
LowerOf ==
    [c \in UpperLetters |-> LowerSeq[CHOOSE i \in 1..26 : UpperSeq[i] = c]]

RECURSIVE to_uppercase(_)
\* str::to_uppercase
to_uppercase(s) ==
    IF s = <<>> THEN <<>> ELSE UpperOf[Head(s)] \o to_uppercase(Tail(s))

Prefix(s, n) == SubSeq(s, 1, n)
Suffix(s, n) == SubSeq(s, n + 1, Len(s))     \* s without its first n characters

\* TRUE iff needle occurs in s at character index i (1-based)
OccursAt(s, needle, i) ==
    /\ i + Len(needle) - 1 <= Len(s)
    /\ \A j \in 1..Len(needle) : s[i + j - 1] = needle[j]

\* str::find(needle): the byte offset of the first occurrence, or None
str_find(s, needle) ==
    LET hits == {i \in 1..(Len(s) + 1) : OccursAt(s, needle, i)}
    IN IF hits = {} THEN None
       ELSE LET i == CHOOSE x \in hits : \A y \in hits : x <= y
            IN Some(str_len(Prefix(s, i - 1)))

\* str::contains
str_contains(s, needle) == \E i \in 1..(Len(s) + 1) : OccursAt(s, needle, i)

RECURSIVE Walk(_, _, _, _)
\* the number n >= i of leading characters of s that make up exactly b
\* bytes, given that the first i make up acc bytes; -1 when there is none
Walk(s, i, acc, b) ==
    IF acc = b THEN i
    ELSE IF acc > b \/ i = Len(s) THEN -1
    ELSE Walk(s, i + 1, acc + len_utf8(s[i + 1]), b)

\* the number of characters that make up the first b bytes of s, or -1
CharsIn(s, b) == Walk(s, 0, 0, b)

\* str::is_char_boundary(b)
is_char_boundary(s, b) == CharsIn(s, b) >= 0

\* &s[..b] and &s[b..]: index out of range or off a character boundary panics
slice_to(s, b) ==
    IF is_char_boundary(s, b)
    THEN [panic |-> FALSE, v |-> Prefix(s, CharsIn(s, b))]
    ELSE [panic |-> TRUE, v |-> <<>>]
slice_from(s, b) ==
    IF is_char_boundary(s, b)
    THEN [panic |-> FALSE, v |-> Suffix(s, CharsIn(s, b))]
    ELSE [panic |-> TRUE, v |-> <<>>]

IsSpace(c) == is_whitespace(c)
RECURSIVE TrimStart(_)
TrimStart(s) == IF s # <<>> /\ IsSpace(Head(s)) THEN TrimStart(Tail(s)) ELSE s
RECURSIVE TrimEnd(_)
TrimEnd(s) ==
    IF s # <<>> /\ IsSpace(s[Len(s)]) THEN TrimEnd(Prefix(s, Len(s) - 1)) ELSE s
\* str::trim
str_trim(s) == TrimEnd(TrimStart(s))

-----------------------------------------------------------------------------
(* Regular expressions with the leftmost-first semantics of the regex      *)
(* crate.  A match state is the position after the match and the capture   *)
(* groups closed so far; Run returns the match states in priority order.   *)

\* Unicode classes of the regex crate, over the characters of the model
ClassSpace == AsciiSpace \cup {"nbsp"}                               \* \s
ClassDigit == Digits                                                 \* \d
ClassWord == UpperLetters \cup LowerLetters \cup Digits \cup {"_"}   \* \w
             \cup {"e_acute", "E_ACUTE", "dotless_i", "n_apos", "mod_apos",
                   "iota_dt", "IOTA", "comb_dia", "comb_acute", "cjk"}
ClassLetterI == UpperLetters \cup LowerLetters                 \* (?i)[A-Z]
ClassDot == Chars \ {"\n"}                                           \* .

In(S) == [t |-> "set", s |-> S]
Word(w, ci) == [t |-> "lit", w |-> w, ci |-> ci]
Cat(rs) == [t |-> "cat", rs |-> rs]
Alt(rs) == [t |-> "alt", rs |-> rs]
\* r{min,max}; max = -1 is unbounded
Rep(r, min, max, greedy) ==
    [t |-> "rep", r |-> r, min |-> min, max |-> max, greedy |-> greedy]
Star(r) == Rep(r, 0, -1, TRUE)
Plus(r) == Rep(r, 1, -1, TRUE)
Opt(r) == Rep(r, 0, 1, TRUE)
LazyPlus(r) == Rep(r, 1, -1, FALSE)
Group(n, r) == [t |-> "cap", n |-> n, r |-> r]
WordBoundary == [t |-> "wb"]

\* a literal, and a literal under (?i)
CharI(c) ==
    IF c \in UpperLetters THEN In({c, LowerOf[c]})
    ELSE IF c \in LowerLetters THEN In({c, UpperOf[c][1]})
    ELSE In({c})
Lit(w) == Word(w, FALSE)
LitI(w) == Word(w, TRUE)

\* simple case folding, as (?i) compares characters
FoldOf ==
    [c \in Chars |->
        IF c \in UpperLetters THEN LowerOf[c]
        ELSE IF c = "E_ACUTE" THEN "e_acute"
        ELSE c]

\* TRUE iff the literal w is at character index i of s
LitAt(s, w, ci, i) ==
    /\ i + Len(w) - 1 <= Len(s)
    /\ \A j \in 1..Len(w) :
           IF ci THEN FoldOf[s[i + j - 1]] = FoldOf[w[j]]
           ELSE s[i + j - 1] = w[j]

RECURSIVE RunLength(_, _, _, _)
\* how many characters of s from index i on are in S, at most max
\* (max = -1: no limit)
RunLength(s, i, S, max) ==
    IF max = 0 \/ i > Len(s) \/ s[i] \notin S THEN 0
    ELSE 1 + RunLength(s, i + 1, S, IF max > 0 THEN max - 1 ELSE max)

MState(p, c) == [p |-> p, c |-> c]

RECURSIVE DedupFrom(_, _)
\* the states of q whose position is not in seen, first occurrence kept
DedupFrom(q, seen) ==
    IF q = <<>> THEN <<>>
    ELSE IF Head(q).p \in seen THEN DedupFrom(Tail(q), seen)
    ELSE <<Head(q)>> \o DedupFrom(Tail(q), seen \cup {Head(q).p})
Dedup(q) == DedupFrom(q, {})

RECURSIVE Run(_, _, _)
RECURSIVE RunCat(_, _, _, _)
RECURSIVE RunAlt(_, _, _, _)
RECURSIVE RunAll(_, _, _)

RunAll(r, s, q) ==
    IF q = <<>> THEN <<>>
    ELSE Run(r, s, Head(q)) \o RunAll(r, s, Tail(q))

\* the match states of r on s from each state of q, in order
RunEach(r, s, q) == Dedup(RunAll(r, s, q))

RunCat(rs, i, s, q) ==
    IF i > Len(rs) \/ q = <<>> THEN q
    ELSE RunCat(rs, i + 1, s, RunEach(rs[i], s, q))

RunAlt(rs, i, s, st) ==
    IF i > Len(rs) THEN <<>>
    ELSE Run(rs[i], s, st) \o RunAlt(rs, i + 1, s, st)

Run(r, s, st) ==
    CASE r.t = "set" ->
            IF st.p <= Len(s) /\ s[st.p] \in r.s
            THEN <<MState(st.p + 1, st.c)>> ELSE <<>>
      [] r.t = "lit" ->
            IF LitAt(s, r.w, r.ci, st.p)
            THEN <<MState(st.p + Len(r.w), st.c)>> ELSE <<>>
      [] r.t = "wb" ->
            LET before == st.p > 1 /\ s[st.p - 1] \in ClassWord
                after == st.p <= Len(s) /\ s[st.p] \in ClassWord
            IN IF before # after THEN <<st>> ELSE <<>>
      [] r.t = "cat" -> RunCat(r.rs, 1, s, <<st>>)
      [] r.t = "alt" -> Dedup(RunAlt(r.rs, 1, s, st))
      [] r.t = "cap" ->
            LET q == Run(r.r, s, st)
            IN [k \in DOMAIN q |->
                   MState(q[k].p, [q[k].c EXCEPT ![r.n] = <<st.p, q[k].p>>])]
      [] r.t = "rep" /\ r.r.t = "set" ->
            \* a run of one class: every length from min to the longest,
            \* longest first when greedy
            LET k == RunLength(s, st.p, r.r.s, r.max)
            IN IF k < r.min THEN <<>>
               ELSE [j \in 1..(k - r.min + 1) |->
                       MState(IF r.greedy THEN st.p + k - (j - 1)
                              ELSE st.p + r.min + (j - 1), st.c)]
      [] r.t = "rep" /\ r.r.t # "set" ->
            IF r.max = 0 THEN <<st>>
            ELSE LET once == SelectSeq(Run(r.r, s, st),
                                       LAMBDA x : x.p > st.p)
                     less == Rep(r.r, IF r.min > 0 THEN r.min - 1 ELSE 0,
                                 IF r.max > 0 THEN r.max - 1 ELSE r.max,
                                 r.greedy)
                     more == RunEach(less, s, once)
                 IN IF r.min > 0 THEN more
                    ELSE IF r.greedy THEN Dedup(more \o <<st>>)
                    ELSE Dedup(<<st>> \o more)

NoCaps == [n \in 1..5 |-> <<0, 0>>]

\* the match that starts at character index i, given the match states q
\* of the pattern from i: the first of them (leftmost-first), or None
FirstMatch(i, q) ==
    IF q = <<>> THEN None
    ELSE Some([start |-> i, end |-> q[1].p, caps |-> q[1].c])

\* the match of r that starts at character index i, or None
MatchAt(r, s, i) == FirstMatch(i, Run(r, s, MState(i, NoCaps)))

RECURSIVE FindFrom(_, _, _)
RECURSIVE FindNext(_, _, _, _)
\* Regex::captures_iter from character index i: the successive
\* non-overlapping leftmost matches, in order
FindFrom(r, s, i) ==
    IF i > Len(s) + 1 THEN <<>>
    ELSE FindNext(r, s, i, MatchAt(r, s, i))

\* the matches from index i on, m being the match at i or None
FindNext(r, s, i, m) ==
    IF ~m.some THEN FindFrom(r, s, i + 1)
    ELSE <<m.v>> \o FindFrom(r, s, IF m.v.end > i THEN m.v.end ELSE i + 1)

\* Regex::captures_iter
captures_iter(r, s) == FindFrom(r, s, 1)

\* the first element of a sequence, or None
FirstOf(ms) == IF ms = <<>> THEN None ELSE Some(ms[1])

\* Regex::captures: the first match, or None
captures(r, s) == FirstOf(captures_iter(r, s))

\* the text of capture group n of match m
CapText(s, m, n) == SubSeq(s, m.caps[n][1], m.caps[n][2] - 1)

-----------------------------------------------------------------------------
(* The heuristic extractor, src/src/heuristics/generic.rs.                 *)

PACKING_LIST == <<"P", "A", "C", "K", "I", "N", "G", " ", "L", "I", "S", "T">>
CARTON == <<"C", "A", "R", "T", "O", "N">>

\* An f64 parsed from decimal digits: mant / 10^scale, without trailing
\* zeros in the fraction, so that equal numbers are equal records.
RECURSIVE Normal(_, _)
Normal(m, k) == IF k > 0 /\ m % 10 = 0 THEN Normal(m \div 10, k - 1)
                ELSE [mant |-> m, scale |-> k]

DigitValue(c) == CHOOSE d \in 0..9 : ToString(d) = c

RECURSIVE ParseDigits(_, _, _, _)
ParseDigits(s, m, k, seenDot) ==
    IF s = <<>> THEN Normal(m, k)
    ELSE IF Head(s) = "." THEN ParseDigits(Tail(s), m, k, TRUE)
    ELSE ParseDigits(Tail(s), 10 * m + DigitValue(Head(s)),
                     IF seenDot THEN k + 1 ELSE k, seenDot)

\* cap.replace(',', "").parse::<f64>() on a match of \d[\d,]*\.?\d*
parse_f64(s) == ParseDigits(SelectSeq(s, LAMBDA c : c # ","), 0, 0, FALSE)

Sp == In(ClassSpace)

\* (?i)TOTAL\s+(\d[\d,]*\.?\d*)
total_re ==
    Cat(<<LitI(<<"T", "O", "T", "A", "L">>), Plus(Sp),
          Group(1, Cat(<<In(ClassDigit), Star(In(ClassDigit \cup {","})),
                         Opt(In({"."})), Star(In(ClassDigit))>>))>>)

\* (?i)([A-Z][A-Z\.\s&]+(?:PTE\.?\s*LTD\.?|CO\.?,?\s*LTD\.?|CORPORATION|CORP\.?|INC\.?))
company_re ==
    Group(1, Cat(<<
        In(ClassLetterI),
        Plus(In(ClassLetterI \cup {".", "&"} \cup ClassSpace)),
        Alt(<<Cat(<<LitI(<<"P", "T", "E">>), Opt(In({"."})), Star(Sp),
                    LitI(<<"L", "T", "D">>), Opt(In({"."}))>>),
              Cat(<<LitI(<<"C", "O">>), Opt(In({"."})), Opt(In({","})), Star(Sp),
                    LitI(<<"L", "T", "D">>), Opt(In({"."}))>>),
              LitI(<<"C", "O", "R", "P", "O", "R", "A", "T", "I", "O", "N">>),
              Cat(<<LitI(<<"C", "O", "R", "P">>), Opt(In({"."}))>>),
              Cat(<<LitI(<<"I", "N", "C">>), Opt(In({"."}))>>)>>)>>))

\* (?i)(?:For\s+)?Account\s*&?\s*risk\s+of\s+Messers?\s*\n\s*(.+)
buyer_re ==
    Cat(<<Opt(Cat(<<LitI(<<"F", "o", "r">>), Plus(Sp)>>)),
          LitI(<<"A", "c", "c", "o", "u", "n", "t">>), Star(Sp), Opt(In({"&"})), Star(Sp),
          LitI(<<"r", "i", "s", "k">>), Plus(Sp), LitI(<<"o", "f">>), Plus(Sp),
          LitI(<<"M", "e", "s", "s", "e", "r">>), Opt(CharI("s")), Star(Sp), In({"\n"}), Star(Sp),
          Group(1, Plus(In(ClassDot)))>>)

\* text.to_uppercase().find("PACKING LIST"): a byte offset into the
\* upper-cased text
packing_pos(text) == str_find(to_uppercase(text), PACKING_LIST)

\* &text[..packing_pos], with packing_pos defaulting to text.len()
invoice_section(text) ==
    LET pos == packing_pos(text)
    IN slice_to(text, IF pos.some THEN pos.v ELSE str_len(text))

\* &text[pos..] when the marker is found, None otherwise
packing_section(text) ==
    LET pos == packing_pos(text)
    IN IF pos.some THEN Some(slice_from(text, pos.v)) ELSE None

\* extract_packing_items: &packing_section[header_pos..]
data_section(section) ==
    LET header_pos == str_find(to_uppercase(section), CARTON)
    IN slice_from(section, IF header_pos.some THEN header_pos.v ELSE 0)

\* the values of the TOTAL matches of a section, in order
TotalValues(section) ==
    LET ms == captures_iter(total_re, section)
    IN [k \in DOMAIN ms |-> parse_f64(CapText(section, ms[k], 1))]

\* extract_total_amount: Option<f64>, or a panic
extract_total_amount(text) ==
    LET sec == invoice_section(text)
    IN IF sec.panic THEN [panic |-> TRUE, v |-> None]
       ELSE LET vs == TotalValues(sec.v)
            IN [panic |-> FALSE,
                v |-> IF vs = <<>> THEN None ELSE Some(vs[Len(vs)])]

\* extract_buyer
extract_buyer(text) ==
    LET m == captures(buyer_re, text)
    IN IF m.some THEN Some(str_trim(CapText(text, m.v, 1))) ELSE None

\* extract_company_names
extract_company_names(text) ==
    LET ms == captures_iter(company_re, text)
    IN [k \in DOMAIN ms |-> str_trim(CapText(text, ms[k], 1))]

\* extract_vendor
extract_vendor(text) ==
    LET companies == extract_company_names(text)
        buyer == extract_buyer(text)
        other == {k \in DOMAIN companies :
                    /\ buyer.some
                    /\ ~str_contains(to_uppercase(companies[k]),
                                     to_uppercase(buyer.v))}
    IN IF other # {}
       THEN Some(companies[CHOOSE k \in other : \A j \in other : k <= j])
       ELSE IF companies = <<>> THEN None ELSE Some(companies[1])

\* Line items.  Amounts have exactly two decimals, so they are whole
\* numbers of cents; amt / qty is kept as an exact fraction.

RECURSIVE GCD(_, _)
GCD(a, b) == IF b = 0 THEN a ELSE GCD(b, a % b)

\* the fraction n / d in lowest terms
Ratio(n, d) == LET g == GCD(n, d) IN [num |-> n \div g, den |-> d \div g]

\* the cents of an amount matched by amount_re
Cents(x) == IF x.scale = 0 THEN 100 * x.mant
            ELSE IF x.scale = 1 THEN 10 * x.mant ELSE x.mant

\* (?i)([A-Z][A-Z0-9\s\-:&']+(?:PS[45]\s*\w*|NS\s*\w*|SWITCH|XBOX|PC|ASI\w*)\b)
desc_re ==
    Group(1, Cat(<<
        In(ClassLetterI),
        Plus(In(ClassLetterI \cup ClassDigit \cup ClassSpace \cup {"-", ":", "&", "'"})),
        Alt(<<Cat(<<LitI(<<"P", "S">>), In({"4", "5"}), Star(Sp), Star(In(ClassWord))>>),
              Cat(<<LitI(<<"N", "S">>), Star(Sp), Star(In(ClassWord))>>),
              LitI(<<"S", "W", "I", "T", "C", "H">>),
              LitI(<<"X", "B", "O", "X">>),
              LitI(<<"P", "C">>),
              Cat(<<LitI(<<"A", "S", "I">>), Star(In(ClassWord))>>)>>),
        WordBoundary>>))

\* \b(\d{1,6})\s+PIECE
qty_re ==
    Cat(<<WordBoundary, Group(1, Rep(In(ClassDigit), 1, 6, TRUE)), Plus(Sp),
          Lit(<<"P", "I", "E", "C", "E">>)>>)

\* (\d[\d,]*\.\d{2})
amount_re ==
    Group(1, Cat(<<In(ClassDigit), Star(In(ClassDigit \cup {","})), In({"."}),
                   In(ClassDigit), In(ClassDigit)>>))

\* c[1].parse::<u32>() on one to six digits
parse_u32(s) == ParseDigits(s, 0, 0, FALSE).mant

Zero == Normal(0, 0)

RECURSIVE FirstUnit(_, _, _, _)
\* the inner loop over `other`: TRUE iff some amount other than amt is
\* within 0.01 of amt / qty
FirstUnit(amounts, j, amt, qty) ==
    IF j > Len(amounts) THEN FALSE
    ELSE LET a == Cents(amt)
             o == Cents(amounts[j])
             diff == IF o * qty >= a THEN o * qty - a ELSE a - o * qty
         IN IF diff < qty /\ amt # amounts[j] THEN TRUE
            ELSE FirstUnit(amounts, j + 1, amt, qty)

RECURSIVE Reconcile(_, _, _)
\* the outer loop over `amt`, from index i: the amount and unit price of
\* the item
Reconcile(amounts, i, qty) ==
    IF i > Len(amounts) THEN [amount |-> Zero, unit_price |-> Ratio(0, 1)]
    ELSE IF FirstUnit(amounts, 1, amounts[i], qty)
              /\ Cents(amounts[i]) > 0
         THEN [amount |-> amounts[i],
               unit_price |-> Ratio(Cents(amounts[i]), 100 * qty)]
         ELSE Reconcile(amounts, i + 1, qty)

\* quantities: the u32 of every qty_re match of the section
quantities(sec) ==
    LET qs == captures_iter(qty_re, sec)
    IN [k \in DOMAIN qs |-> parse_u32(CapText(sec, qs[k], 1))]

\* amounts: the f64 of every amount_re match of the section
amounts(sec) ==
    LET ms == captures_iter(amount_re, sec)
    IN [k \in DOMAIN ms |-> parse_f64(CapText(sec, ms[k], 1))]

NoPair == [amount |-> Zero, unit_price |-> Ratio(0, 1)]

\* extract_line_items on a text whose split does not panic
extract_line_items(text) ==
    LET sec == invoice_section(text).v
        ds == captures_iter(desc_re, sec)
        qs == quantities(sec)
        as == amounts(sec)
    IN [i \in DOMAIN ds |->
           LET qty == IF i <= Len(qs) THEN qs[i] ELSE 0
               r == IF qty > 0 THEN Reconcile(as, 1, qty) ELSE NoPair
           IN [description |-> str_trim(CapText(sec, ds[i], 1)),
               qty |-> qty,
               unit_price |-> r.unit_price,
               amount |-> r.amount]]

US_DOLLAR == <<"U", "S", "$">>
USD == <<"U", "S", "D">>

\* the whitelist after US$
CurrencyCodes == <<USD, <<"S", "G", "D">>, <<"E", "U", "R">>, <<"G", "B", "P">>,
                   <<"T", "H", "B">>, <<"J", "P", "Y">>>>

\* (?i)\b(US\$|USD|SGD|EUR|GBP|THB|JPY)\b
currency_re ==
    Cat(<<WordBoundary,
          Group(1, Alt(<<LitI(US_DOLLAR)>>
                       \o [k \in DOMAIN CurrencyCodes |-> LitI(CurrencyCodes[k])])),
          WordBoundary>>)

\* a variant of extract_currency that takes USD for a text naming no currency
ExtractCurrencyOrUsd(text) ==
    LET cap == captures(currency_re, text)
    IN IF ~cap.some THEN Some(USD)
       ELSE LET raw == to_uppercase(CapText(text, cap.v, 1))
            IN Some(IF raw = US_DOLLAR THEN USD ELSE raw)

\* extract_currency
extract_currency(text) ==
    LET cap == captures(currency_re, text)
    IN IF ~cap.some THEN None
       ELSE LET raw == to_uppercase(CapText(text, cap.v, 1))
            IN Some(IF raw = US_DOLLAR THEN USD ELSE raw)

\* (?i)TOTAL\s+(\d+)\s+(\d+)\s+([\d.]+)\s+([\d.]+)
packing_total_re ==
    Cat(<<LitI(<<"T", "O", "T", "A", "L">>), Plus(Sp),
          Group(1, Plus(In(ClassDigit))), Plus(Sp),
          Group(2, Plus(In(ClassDigit))), Plus(Sp),
          Group(3, Plus(In(ClassDigit \cup {"."}))), Plus(Sp),
          Group(4, Plus(In(ClassDigit \cup {"."})))>>)

\* cap.parse::<f64>().unwrap_or(0.0) on a run of digits and dots
parse_f64_or_0(s) ==
    IF Len(SelectSeq(s, LAMBDA c : c = ".")) > 1
          \/ SelectSeq(s, LAMBDA c : c # ".") = <<>>
    THEN Zero
    ELSE ParseDigits(s, 0, 0, FALSE)

\* the PackingTotals of the first row of a section, or None; the counts
\* of the rows drawn here have at most three digits, so parse::<u32>()
\* succeeds and unwrap_or(0) returns the parsed value
PackingTotalsOf(section) ==
    LET cap == captures(packing_total_re, section)
    IN IF ~cap.some THEN None
       ELSE Some([total_cartons |-> parse_u32(CapText(section, cap.v, 1)),
                  total_qty |-> parse_u32(CapText(section, cap.v, 2)),
                  total_net_wt |-> parse_f64_or_0(CapText(section, cap.v, 3)),
                  total_gross_wt |-> parse_f64_or_0(CapText(section, cap.v, 4))])

\* extract_packing_totals: Option<PackingTotals>, or a panic
extract_packing_totals(text) ==
    LET sec == packing_section(text)
    IN IF ~sec.some THEN [panic |-> FALSE, v |-> None]
       ELSE IF sec.v.panic THEN [panic |-> TRUE, v |-> None]
       ELSE [panic |-> FALSE, v |-> PackingTotalsOf(sec.v.v)]

Letters == UpperLetters \cup LowerLetters      \* [A-Za-z], also under (?i)

\* (?i)Invoice\s+No\.?\s*:?\s*([A-Za-z0-9\-/]+)
invoice_no_re ==
    Cat(<<LitI(<<"I", "n", "v", "o", "i", "c", "e">>), Plus(Sp),
          LitI(<<"N", "o">>), Opt(In({"."})), Star(Sp), Opt(In({":"})), Star(Sp),
          Group(1, Plus(In(Letters \cup ClassDigit \cup {"-", "/"})))>>)

\* extract_invoice_no
extract_invoice_no(text) ==
    LET m == captures(invoice_no_re, text)
    IN IF m.some THEN Some(str_trim(CapText(text, m.v, 1))) ELSE None

\* (?i)Invoice\s+Date\s*:?\s*([A-Za-z]+\s+\d{1,2},?\s+\d{4}
\*                            |\d{1,2}[/\-]\d{1,2}[/\-]\d{2,4})
invoice_date_re ==
    Cat(<<LitI(<<"I", "n", "v", "o", "i", "c", "e">>), Plus(Sp),
          LitI(<<"D", "a", "t", "e">>), Star(Sp), Opt(In({":"})), Star(Sp),
          Group(1, Alt(<<
              Cat(<<Plus(In(Letters)), Plus(Sp), Rep(In(ClassDigit), 1, 2, TRUE),
                    Opt(In({","})), Plus(Sp), Rep(In(ClassDigit), 4, 4, TRUE)>>),
              Cat(<<Rep(In(ClassDigit), 1, 2, TRUE), In({"/", "-"}),
                    Rep(In(ClassDigit), 1, 2, TRUE), In({"/", "-"}),
                    Rep(In(ClassDigit), 2, 4, TRUE)>>)>>))>>)

\* extract_invoice_date
extract_invoice_date(text) ==
    LET m == captures(invoice_date_re, text)
    IN IF m.some THEN Some(str_trim(CapText(text, m.v, 1))) ELSE None

\* (?i)TOTAL\s+PCS\s+(\d+)
total_pieces_re ==
    Cat(<<LitI(<<"T", "O", "T", "A", "L">>), Plus(Sp), LitI(<<"P", "C", "S">>),
          Plus(Sp), Group(1, Plus(In(ClassDigit)))>>)

\* extract_total_pieces; parse::<u32>().ok() is None for a count that does
\* not fit (ten digits or more are taken not to fit)
extract_total_pieces(text) ==
    LET m == captures(total_pieces_re, text)
    IN IF m.some /\ Len(CapText(text, m.v, 1)) <= 9
       THEN Some(parse_u32(CapText(text, m.v, 1)))
       ELSE None

\* (?i)From\s*:\s*([A-Za-z\s]+?)(?:\s{2,}|To\s*:|\n)
ship_from_re ==
    Cat(<<LitI(<<"F", "r", "o", "m">>), Star(Sp), In({":"}), Star(Sp),
          Group(1, LazyPlus(In(Letters \cup ClassSpace))),
          Alt(<<Rep(Sp, 2, -1, TRUE),
                Cat(<<LitI(<<"T", "o">>), Star(Sp), In({":"})>>),
                In({"\n"})>>)>>)

\* extract_ship_from
extract_ship_from(text) ==
    LET m == captures(ship_from_re, text)
    IN IF m.some THEN Some(to_uppercase(str_trim(CapText(text, m.v, 1))))
       ELSE None

\* (?i)To\s*:\s*([A-Za-z\s]+?)(?:\s{2,}|\n)
ship_to_re ==
    Cat(<<LitI(<<"T", "o">>), Star(Sp), In({":"}), Star(Sp),
          Group(1, LazyPlus(In(Letters \cup ClassSpace))),
          Alt(<<Rep(Sp, 2, -1, TRUE), In({"\n"})>>)>>)

\* extract_ship_to
extract_ship_to(text) ==
    LET m == captures(ship_to_re, text)
    IN IF m.some THEN Some(to_uppercase(str_trim(CapText(text, m.v, 1))))
       ELSE None

\* (?i)Shipped\s+per\s*:\s*(.+?)(?:\s{2,}|From\s*:|\n)
shipping_method_re ==
    Cat(<<LitI(<<"S", "h", "i", "p", "p", "e", "d">>), Plus(Sp),
          LitI(<<"p", "e", "r">>), Star(Sp), In({":"}), Star(Sp),
          Group(1, LazyPlus(In(ClassDot))),
          Alt(<<Rep(Sp, 2, -1, TRUE),
                Cat(<<LitI(<<"F", "r", "o", "m">>), Star(Sp), In({":"})>>),
                In({"\n"})>>)>>)

\* extract_shipping_method
extract_shipping_method(text) ==
    LET m == captures(shipping_method_re, text)
    IN IF m.some THEN Some(str_trim(CapText(text, m.v, 1))) ELSE None

\* (\d+\s*X\s*\d+\s*X\s*\d+\s*CM)
meas_re ==
    Group(1, Cat(<<Plus(In(ClassDigit)), Star(Sp), In({"X"}), Star(Sp),
                   Plus(In(ClassDigit)), Star(Sp), In({"X"}), Star(Sp),
                   Plus(In(ClassDigit)), Star(Sp), Lit(<<"C", "M">>)>>))

\* (\d+(?:\s*-\s*\d+)?)\s+(\d+)\s+(\d+)\s+([\d.]+)\s+([\d.]+)
row_re ==
    Cat(<<Group(1, Cat(<<Plus(In(ClassDigit)),
                         Opt(Cat(<<Star(Sp), In({"-"}), Star(Sp),
                                   Plus(In(ClassDigit))>>))>>)), Plus(Sp),
          Group(2, Plus(In(ClassDigit))), Plus(Sp),
          Group(3, Plus(In(ClassDigit))), Plus(Sp),
          Group(4, Plus(In(ClassDigit \cup {"."}))), Plus(Sp),
          Group(5, Plus(In(ClassDigit \cup {"."})))>>)

\* the i-th text of a list, or "" (get(i).cloned().unwrap_or_default())
GetOrDefault(list, i) == IF i <= Len(list) THEN list[i] ELSE <<>>

\* extract_packing_items on a text whose slices do not panic
extract_packing_items(text) ==
    LET sec == packing_section(text)
    IN IF ~sec.some THEN <<>>
       ELSE LET section == sec.v.v
                ds == captures_iter(desc_re, section)
                descriptions == [k \in DOMAIN ds |-> str_trim(CapText(section, ds[k], 1))]
                ms == captures_iter(meas_re, section)
                measurements == [k \in DOMAIN ms |-> str_trim(CapText(section, ms[k], 1))]
                data == data_section(section).v
                rows == captures_iter(row_re, data)
            IN [i \in DOMAIN rows |->
                   [carton |-> str_trim(CapText(data, rows[i], 1)),
                    description |-> GetOrDefault(descriptions, i),
                    ctns |-> parse_u32(CapText(data, rows[i], 2)),
                    qty |-> parse_u32(CapText(data, rows[i], 3)),
                    net_wt_per_ctn |-> parse_f64_or_0(CapText(data, rows[i], 4)),
                    gross_wt_per_ctn |-> parse_f64_or_0(CapText(data, rows[i], 5)),
                    measurement |-> GetOrDefault(measurements, i)]]

\* a variant of coverage that also counts packing_totals
CoverageWithTotals(r) ==
    <<Len(SelectSeq(<<r.vendor.some, r.buyer.some, r.invoice_no.some,
                      r.invoice_date.some, r.currency.some, r.total_amount.some,
                      r.total_pieces.some, r.ship_from.some, r.ship_to.some,
                      r.shipping_method.some, r.packing_totals.some>>,
                    LAMBDA v : v)), 10>>

\* InvoiceData::coverage: (filled, total)
coverage(r) ==
    LET total == 10
        filled == Len(SelectSeq(<<r.vendor.some, r.buyer.some, r.invoice_no.some,
                                  r.invoice_date.some, r.currency.some,
                                  r.total_amount.some, r.total_pieces.some,
                                  r.ship_from.some, r.ship_to.some,
                                  r.shipping_method.some>>,
                                LAMBDA v : v))
    IN <<filled, total>>

\* extract_line_items, extract_packing_items and extract_packing_totals:
\* TRUE iff one of their slices panics
line_items_panic(text) == invoice_section(text).panic
packing_items_panic(text) ==
    LET sec == packing_section(text)
    IN sec.some /\ (sec.v.panic \/ data_section(sec.v.v).panic)
packing_totals_panic(text) ==
    LET sec == packing_section(text) IN sec.some /\ sec.v.panic

\* the InvoiceData that has no field
EmptyInvoice ==
    [vendor |-> None, buyer |-> None, invoice_no |-> None,
     invoice_date |-> None, currency |-> None, total_amount |-> None,
     total_pieces |-> None, ship_from |-> None, ship_to |-> None,
     shipping_method |-> None, line_items |-> <<>>, packing_items |-> <<>>,
     packing_totals |-> None]

\* generic::extract: the InvoiceData it returns, or the panic that ends it
\* (panicked, with no field)
extract(text) ==
    LET total == extract_total_amount(text)
    IN IF \/ total.panic
          \/ line_items_panic(text)
          \/ packing_items_panic(text)
          \/ packing_totals_panic(text)
       THEN [panicked |-> TRUE] @@ EmptyInvoice
       ELSE [panicked |-> FALSE,
             vendor |-> extract_vendor(text),
             buyer |-> extract_buyer(text),
             invoice_no |-> extract_invoice_no(text),
             invoice_date |-> extract_invoice_date(text),
             currency |-> extract_currency(text),
             total_amount |-> total.v,
             total_pieces |-> extract_total_pieces(text),
             ship_from |-> extract_ship_from(text),
             ship_to |-> extract_ship_to(text),
             shipping_method |-> extract_shipping_method(text),
             line_items |-> extract_line_items(text),
             packing_items |-> extract_packing_items(text),
             packing_totals |-> extract_packing_totals(text).v]

\* heuristics::extract_invoice
extract_invoice(text) == extract(text)

-----------------------------------------------------------------------------
(* The heuristic extractor on its own: extract_invoice applied to texts    *)
(* that are concatenations of a few tokens.                                *)

MaxTokens == 3     \* tokens of an input text

\* tokens around the invoice/packing split
SplitTokens == {
    <<"T", "O", "T", "A", "L", " ", "5", "7">>,
    <<"T", "o", "t", "a", "l", " ", "2", ",", "5", "4", "0", ".", "0", "0", "\n">>,
    <<"P", "A", "C", "K", "I", "N", "G", " ", "L", "I", "S", "T">>,
    <<" ", "T", "O", "T", "A", "L", " ", "1", "0", " ", "1", "0", "0", " ", "2", "5", ".", "0", " ", "3", "0", ".", "0">>,
    <<"dotless_i">>,
    <<"e_acute">>}

\* tokens around the buyer anchor and company names
PartyTokens == {
    <<"A", "c", "c", "o", "u", "n", "t", " ", "&", " ", "r", "i", "s", "k", " ", "o", "f", " ", "M", "e", "s", "s", "e", "r", "s", "\n">>,
    <<"A", "C", "M", "E", " ", "P", "T", "E", " ", "L", "T", "D">>,
    <<"B", "o", "l", "t", " ", "I", "n", "c", ".", " ", "1", "\n">>,
    <<"\n">>}

RECURSIVE Flatten(_)
Flatten(ws) == IF ws = <<>> THEN <<>> ELSE Head(ws) \o Flatten(Tail(ws))

TextsOver(tokens) ==
    {Flatten(ws) : ws \in UNION {[1..n -> tokens] : n \in 0..MaxTokens}}

HeurTexts == TextsOver(SplitTokens) \cup TextsOver(PartyTokens)

\* heuristics::extract_invoice(text)
Extract ==
    /\ ~hrec.some
    /\ hrec' = Some(extract_invoice(htext))
    /\ UNCHANGED <<htext, pipeVars, classVars>>

InitHeur ==
    /\ htext \in HeurTexts
    /\ hrec = None
    /\ PipeIdle
    /\ StoreIdle
    /\ ClassIdle

NextHeur == Extract

SpecHeur == InitHeur /\ [][NextHeur]_vars

Record == hrec.v


\* the character index of the first case-insensitive occurrence of the
\* marker in the text itself, or 0
MarkerIndex(text) ==
    LET hits == {i \in 1..Len(text) : LitAt(text, PACKING_LIST, TRUE, i)}
    IN IF hits = {} THEN 0 ELSE CHOOSE x \in hits : \A y \in hits : x <= y

\* the text before the marker, the whole text when there is no marker
BeforeMarker(text) ==
    IF MarkerIndex(text) = 0 THEN text ELSE Prefix(text, MarkerIndex(text) - 1)

\* C4 (as claimed): extract_invoice returns a record for every text; the
\* split position found on the upper-cased text is a valid split position
\* of the text.
C4_ExtractIsTotal ==
    hrec.some
        => /\ ~Record.panicked
           /\ packing_pos(htext).some
                => is_char_boundary(htext, packing_pos(htext).v)

\* C9 (as claimed): total_amount is the value of the last "TOTAL <number>"
\* occurrence before the first case-insensitive "PACKING LIST" marker, and
\* is unset when there is none.
C9_LastTotalBeforeMarker ==
    (hrec.some /\ ~Record.panicked)
        => LET vs == TotalValues(BeforeMarker(htext))
           IN Record.total_amount =
                 IF vs = <<>> THEN None ELSE Some(vs[Len(vs)])

\* C10 (as claimed): when buyer and vendor are both set, the vendor does
\* not contain the buyer's name, compared without regard to case.
C10_VendorIsNotBuyer ==
    (hrec.some /\ ~Record.panicked /\ Record.vendor.some /\ Record.buyer.some)
        => ~str_contains(to_uppercase(Record.vendor.v),
                         to_uppercase(Record.buyer.v))


-----------------------------------------------------------------------------
(* extract_line_items on its own, applied to texts made of a few tokens.   *)

MaxItemTokens == 3     \* tokens of a text with line items

ItemTokens == {
    <<"A", " ", "P", "C", " ", "3", " ", "P", "I", "E", "C", "E", " ">>,
    <<"B", " ", "N", "S", " ", "1", "0", "0", " ", "P", "I", "E", "C", "E", " ">>,
    <<"C", " ", "P", "C", ".", " ">>,
    <<"1", "0", "0", ".", "0", "0", " ">>,
    <<"3", "3", ".", "3", "3", " ">>,
    <<"2", ",", "5", "4", "0", ".", "0", "0", " ">>,
    <<"2", "5", ".", "4", "0", " ">>}

ItemTexts ==
    {Flatten(ws) : ws \in UNION {[1..n -> ItemTokens] : n \in 0..MaxItemTokens}}

\* extract_line_items(text)
ExtractItems ==
    /\ ~hrec.some
    /\ hrec' = Some(extract_line_items(htext))
    /\ UNCHANGED <<htext, pipeVars, classVars>>

InitItems ==
    /\ htext \in ItemTexts
    /\ hrec = None
    /\ PipeIdle
    /\ StoreIdle
    /\ ClassIdle

NextItems == ExtractItems

SpecItems == InitItems /\ [][NextItems]_vars

\* the pairs (amt, other), by their indices, with |amt/qty - other| < 0.01
\* and amt # other
Pairs(as, qty) ==
    {p \in (DOMAIN as) \X (DOMAIN as) :
        LET a == Cents(as[p[1]])
            o == Cents(as[p[2]])
        IN /\ a - o * qty < qty
           /\ o * qty - a < qty
           /\ as[p[1]] # as[p[2]]}

\* the first pair in text order
FirstPair(as, qty) ==
    CHOOSE p \in Pairs(as, qty) :
        \A q \in Pairs(as, qty) :
            p[1] < q[1] \/ (p[1] = q[1] /\ p[2] <= q[2])

\* C11 (as claimed): an item with qty > 0 takes the first pair (amt, other)
\* of the section's amounts with |amt/qty - other| < 0.01 and amt # other:
\* its amount is amt and its unit price is other; without such a pair, or
\* with qty 0, both are 0.
C11_Reconciliation ==
    hrec.some =>
        \A i \in DOMAIN hrec.v :
            LET item == hrec.v[i]
                as == amounts(BeforeMarker(htext))
            IN IF item.qty > 0 /\ Pairs(as, item.qty) # {}
               THEN LET p == FirstPair(as, item.qty)
                    IN /\ item.amount = as[p[1]]
                       /\ item.unit_price = Ratio(Cents(as[p[2]]), 100)
               ELSE /\ item.amount = Zero
                    /\ item.unit_price = Ratio(0, 1)

-----------------------------------------------------------------------------
(* extract_currency on its own, applied to texts made of a few tokens.     *)

MaxCurrencyTokens == 3     \* tokens of a text with currency tokens

CurrencyTokens == {
    <<"U", "S", "$">>,
    <<"u", "s", "d">>,
    <<"S", "g", "d">>,
    <<"J", "P", "Y">>,
    <<" ">>,
    <<"1">>}

CurrencyTexts ==
    {Flatten(ws) :
        ws \in UNION {[1..n -> CurrencyTokens] : n \in 0..MaxCurrencyTokens}}

\* extract_currency(text)
ExtractCurrency ==
    /\ ~hrec.some
    /\ hrec' = Some(extract_currency(htext))
    /\ UNCHANGED <<htext, pipeVars, classVars>>

InitCurrency ==
    /\ htext \in CurrencyTexts
    /\ hrec = None
    /\ PipeIdle
    /\ StoreIdle
    /\ ClassIdle

NextCurrency == ExtractCurrency

SpecCurrency == InitCurrency /\ [][NextCurrency]_vars

\* TRUE iff a word starts at index i of the text
WordStart(text, i) == i = 1 \/ text[i - 1] \notin ClassWord

\* TRUE iff no word character is at index i of the text
WordEnd(text, i) == i > Len(text) \/ text[i] \notin ClassWord

\* the whitelisted token that starts at index i, or <<>>: US$ whatever
\* follows it, a three-letter code as a whole word
TokenAt(text, i) ==
    IF ~WordStart(text, i) THEN <<>>
    ELSE IF LitAt(text, US_DOLLAR, TRUE, i) THEN US_DOLLAR
    ELSE LET ks == {k \in DOMAIN CurrencyCodes :
                       /\ LitAt(text, CurrencyCodes[k], TRUE, i)
                       /\ WordEnd(text, i + 3)}
         IN IF ks = {} THEN <<>> ELSE CurrencyCodes[CHOOSE k \in ks : TRUE]

\* the first whitelisted token of the text, or <<>>
FirstToken(text) ==
    LET hits == {i \in 1..Len(text) : TokenAt(text, i) # <<>>}
    IN IF hits = {} THEN <<>>
       ELSE TokenAt(text, CHOOSE i \in hits : \A j \in hits : i <= j)

\* C12 (as claimed): a text whose first whitelisted currency token is US$
\* gets currency USD, whatever follows the token; any other first token is
\* returned upper-cased.
C12_CurrencyNormalised ==
    (hrec.some /\ FirstToken(htext) # <<>>)
        => hrec.v = Some(IF FirstToken(htext) = US_DOLLAR THEN USD
                         ELSE FirstToken(htext))

-----------------------------------------------------------------------------
(* extract_packing_totals on its own, applied to texts made of a few       *)
(* tokens.                                                                 *)

MaxPackingTokens == 3     \* tokens of a text with packing rows

PackingTokens == {
    <<"T", "O", "T", "A", "L", " ", "1", " ", "2", " ", "3", " ", "4">>,
    <<" ", "T", "o", "t", "a", "l", " ", "1", "0", " ", "1", "0", "0", " ", "2", "5", ".", "0", " ", "3", "0", ".", "0">>,
    <<"P", "A", "C", "K", "I", "N", "G", " ", "L", "I", "S", "T">>,
    <<"P", "a", "c", "k", "i", "n", "g", " ", "L", "i", "s", "t", "\n">>,
    <<"e_acute">>,
    Repeat("dotless_i", 13)}

PackingTexts ==
    {Flatten(ws) :
        ws \in UNION {[1..n -> PackingTokens] : n \in 0..MaxPackingTokens}}

\* extract_packing_totals(text)
ExtractPackingTotals ==
    /\ ~hrec.some
    /\ hrec' = Some(extract_packing_totals(htext))
    /\ UNCHANGED <<htext, pipeVars, classVars>>

InitPacking ==
    /\ htext \in PackingTexts
    /\ hrec = None
    /\ PipeIdle
    /\ StoreIdle
    /\ ClassIdle

NextPacking == ExtractPackingTotals

SpecPacking == InitPacking /\ [][NextPacking]_vars

\* the text from the marker on
FromMarker(text) == Suffix(text, MarkerIndex(text) - 1)

\* C13 (as claimed): packing_totals is unset when the text has no
\* "PACKING LIST" marker, and is otherwise the first row
\* "TOTAL <ctns> <qty> <net_wt> <gross_wt>" at or after the marker, unset
\* when there is none; a row before the marker is never used.
C13_PackingTotalsAfterMarker ==
    (hrec.some /\ ~hrec.v.panic)
        => hrec.v.v = IF MarkerIndex(htext) = 0 THEN None
                      ELSE PackingTotalsOf(FromMarker(htext))

-----------------------------------------------------------------------------
(* The completion request on its own: the text of the user message for     *)
(* texts around max_chars.                                                 *)

MaxSpans == 2         \* spans of an extracted text

SpanLengths == {1, 5999, 6000, 11999, 12000, 12001}
SpanCharacters == {"a", "e_acute", "cjk"}

LongTexts ==
    UNION {[1..n -> {Span(c, k) : c \in SpanCharacters, k \in SpanLengths}] :
              n \in 0..MaxSpans}

\* extract_invoice_with_llm(client, endpoint, extracted_text), up to the
\* request
BuildRequest ==
    /\ ~hrec.some
    /\ hrec' = Some(request_text(htext))
    /\ UNCHANGED <<htext, pipeVars, classVars>>

InitRequest ==
    /\ htext \in LongTexts
    /\ hrec = None
    /\ PipeIdle
    /\ StoreIdle
    /\ ClassIdle

NextRequest == BuildRequest

SpecRequest == InitRequest /\ [][NextRequest]_vars

RECURSIVE FirstChars(_, _)
\* the first k characters of a text of spans
FirstChars(t, k) ==
    IF k = 0 \/ t = <<>> THEN <<>>
    ELSE IF k >= Head(t).n THEN <<Head(t)>> \o FirstChars(Tail(t), k - Head(t).n)
    ELSE <<Span(Head(t).c, k)>>

\* C14 (as claimed): building the request never panics, and the user
\* message embeds exactly the first min(n, 12000) characters of the text.
C14_TruncatesToCharacters ==
    hrec.some
        => /\ ~hrec.v.panic
           /\ hrec.v.v = FirstChars(htext, max_chars)

-----------------------------------------------------------------------------
(* Response repair and parsing, extract_invoice_with_llm and               *)
(* extract_json_object in src/src/llm_extract.rs.                          *)

MaxJsonTokens == 4     \* tokens of a model response

FENCE == <<"backtick", "backtick", "backtick">>
FENCE_JSON == FENCE \o <<"j", "s", "o", "n">>

\* str::rfind(needle): the byte offset of the last occurrence, or None
str_rfind(s, needle) ==
    LET hits == {i \in 1..(Len(s) + 1) : OccursAt(s, needle, i)}
    IN IF hits = {} THEN None
       ELSE LET i == CHOOSE x \in hits : \A y \in hits : x >= y
            IN Some(str_len(Prefix(s, i - 1)))

RECURSIVE trim_start_matches(_, _)
\* str::trim_start_matches(pat): every leading repetition of pat removed
trim_start_matches(s, pat) ==
    IF OccursAt(s, pat, 1) THEN trim_start_matches(Suffix(s, Len(pat)), pat)
    ELSE s

RECURSIVE trim_end_matches(_, _)
\* str::trim_end_matches(pat): every trailing repetition of pat removed
trim_end_matches(s, pat) ==
    IF Len(s) >= Len(pat) /\ OccursAt(s, pat, Len(s) - Len(pat) + 1)
    THEN trim_end_matches(Prefix(s, Len(s) - Len(pat)), pat)
    ELSE s

\* Result<T, E>
Ok(x) == [ok |-> TRUE, v |-> x]
Err(e) == [ok |-> FALSE, v |-> e]

\* &s[a..=b] by byte offsets, or a panic
slice_incl(s, a, b) ==
    LET head == slice_to(s, b + 1)
    IN IF head.panic THEN head ELSE slice_from(head.v, a)

\* a variant that ends the object at the first '}'
ExtractJsonFirstClose(s) ==
    LET start == str_find(s, <<"{">>)
        end == str_find(s, <<"}">>)
    IN IF ~start.some THEN [panic |-> FALSE, r |-> Err("No '{' found")]
       ELSE IF ~end.some THEN [panic |-> FALSE, r |-> Err("No '}' found")]
       ELSE IF end.v <= start.v THEN [panic |-> FALSE, r |-> Err("Malformed JSON")]
       ELSE LET sub == slice_incl(s, start.v, end.v)
            IN [panic |-> sub.panic, r |-> Ok(sub.v)]

\* extract_json_object: Ok(&s[start..=end]), an Err, or a panic
extract_json_object(s) ==
    LET start == str_find(s, <<"{">>)
        end == str_rfind(s, <<"}">>)
    IN IF ~start.some THEN [panic |-> FALSE, r |-> Err("No '{' found")]
       ELSE IF ~end.some THEN [panic |-> FALSE, r |-> Err("No '}' found")]
       ELSE IF end.v <= start.v THEN [panic |-> FALSE, r |-> Err("Malformed JSON")]
       ELSE LET sub == slice_incl(s, start.v, end.v)
            IN [panic |-> sub.panic, r |-> Ok(sub.v)]

\* content.trim().trim_start_matches("```json").trim_start_matches("```")
\*        .trim_end_matches("```").trim()
strip_fences(content) ==
    str_trim(trim_end_matches(
        trim_start_matches(trim_start_matches(str_trim(content), FENCE_JSON),
                           FENCE),
        FENCE))

\* {"line_items":[],"packing_items":[]}
EMPTY_OBJECT ==
    <<"{", "\"", "l", "i", "n", "e", "_", "i", "t", "e", "m", "s", "\"", ":",
      "[", "]", ",", "\"", "p", "a", "c", "k", "i", "n", "g", "_", "i", "t",
      "e", "m", "s", "\"", ":", "[", "]", "}">>

\* {"a":1}
OTHER_OBJECT == <<"{", "\"", "a", "\"", ":", "1", "}">>

\* serde_json::from_str::<InvoiceData> on the objects drawn here: the two
\* Vec fields are required and the Option fields default to None, so of
\* these texts only EMPTY_OBJECT is an InvoiceData
from_str(json_str) ==
    IF json_str = EMPTY_OBJECT THEN Ok(EmptyInvoice)
    ELSE Err("Failed to parse LLM response as InvoiceData")

\* a variant that answers a content without an object with an empty record
ParseContentLenient(content) ==
    LET json_str == extract_json_object(strip_fences(content))
    IN IF json_str.panic THEN json_str
       ELSE IF ~json_str.r.ok THEN [panic |-> FALSE, r |-> Ok(EmptyInvoice)]
       ELSE [panic |-> FALSE, r |-> from_str(json_str.r.v)]

\* extract_invoice_with_llm from the content of the first choice on: the
\* invoice, an Err, or a panic
parse_content(content) ==
    LET json_str == extract_json_object(strip_fences(content))
    IN IF json_str.panic \/ ~json_str.r.ok THEN json_str
       ELSE [panic |-> FALSE, r |-> from_str(json_str.r.v)]

JsonTokens == {
    <<"o", "k", ".", " ">>,
    FENCE_JSON \o <<"\n">>,
    FENCE,
    <<"{">>,
    <<"}">>,
    <<"\n">>,
    OTHER_OBJECT,
    EMPTY_OBJECT}

Contents ==
    {Flatten(ws) : ws \in UNION {[1..n -> JsonTokens] : n \in 0..MaxJsonTokens}}

\* the response handling of extract_invoice_with_llm on one content;
\* `object` is extract_json_object on the content as it is
ParseContent ==
    /\ ~hrec.some
    /\ hrec' = Some([object |-> extract_json_object(htext),
                     invoice |-> parse_content(htext)])
    /\ UNCHANGED <<htext, pipeVars, classVars>>

InitJson ==
    /\ htext \in Contents
    /\ hrec = None
    /\ PipeIdle
    /\ StoreIdle
    /\ ClassIdle

NextJson == ParseContent

SpecJson == InitJson /\ [][NextJson]_vars

\* the indices of the character c in the text
IndicesOf(text, c) == {i \in 1..Len(text) : text[i] = c}
First(S) == CHOOSE x \in S : \A y \in S : x <= y
Last(S) == CHOOSE x \in S : \A y \in S : x >= y

\* TRUE iff the text has a '{' and a '}' after its first '{'
Bracketed(text) ==
    /\ IndicesOf(text, "{") # {}
    /\ IndicesOf(text, "}") # {}
    /\ Last(IndicesOf(text, "}")) > First(IndicesOf(text, "{"))

-----------------------------------------------------------------------------
(* generic::extract on texts of header fields, the empty text among them.  *)

MaxFieldTokens == 2     \* tokens of a text with header fields

FieldTokens == {
    <<"I", "n", "v", "o", "i", "c", "e", " ", "N", "o", ".", " ", "A", "-", "1", "\n">>,
    <<"I", "n", "v", "o", "i", "c", "e", " ", "D", "a", "t", "e", ":", " ",
      "1", "6", "/", "0", "2", "/", "2", "0", "2", "6", "\n">>,
    <<"U", "S", "$", "1", " ">>,
    <<"T", "O", "T", "A", "L", " ", "P", "C", "S", " ", "5", "\n">>,
    <<"F", "r", "o", "m", " ", ":", " ", "S", "G", " ", " ">>,
    <<"T", "o", " ", ":", " ", "T", "H", "\n">>,
    <<"S", "h", "i", "p", "p", "e", "d", " ", "p", "e", "r", " ", ":", " ",
      "S", "E", "A", "\n">>,
    <<"T", "o", "t", "a", "l", " ", "2", "5", ".", "4", "0", "\n">>}

FieldTexts ==
    {Flatten(ws) : ws \in UNION {[1..n -> FieldTokens] : n \in 0..MaxFieldTokens}}

\* generic::extract(text)
ExtractFields ==
    /\ ~hrec.some
    /\ hrec' = Some(extract(htext))
    /\ UNCHANGED <<htext, pipeVars, classVars>>

InitFields ==
    /\ htext \in FieldTexts
    /\ hrec = None
    /\ PipeIdle
    /\ StoreIdle
    /\ ClassIdle

NextFields == ExtractFields

SpecFields == InitFields /\ [][NextFields]_vars

\* C19: extract of the empty text returns, without panicking, the record
\* whose 10 scalar fields are unset, whose line_items and packing_items are
\* empty and whose packing_totals is unset; its coverage is (0, 10).
C19_EmptyTextEmptyRecord ==
    (hrec.some /\ htext = <<>>)
        => /\ hrec.v = [panicked |-> FALSE] @@ EmptyInvoice
           /\ coverage(hrec.v) = <<0, 10>>

\* C19 witness: the empty text has been extracted.
C19_Witness == hrec.some /\ htext = <<>> /\ ~hrec.v.panicked

\* the header tokens are read: a text of two of them fills two fields
FieldsAreRead ==
    /\ hrec.some
    /\ hrec.v.invoice_no = Some(<<"A", "-", "1">>)
    /\ hrec.v.currency = Some(USD)
    /\ coverage(hrec.v) = <<2, 10>>

-----------------------------------------------------------------------------
(* InvoiceData::coverage on records of every shape: each scalar field set  *)
(* or unset, the two lists empty or not, packing_totals set or unset.      *)

\* the 10 Option fields that coverage reads
ScalarFields ==
    {"vendor", "buyer", "invoice_no", "invoice_date", "currency",
     "total_amount", "total_pieces", "ship_from", "ship_to", "shipping_method"}

\* a LineItem, a PackingItem and a PackingTotals
SomeLineItem ==
    [description |-> <<"A", " ", "P", "C">>, qty |-> 3,
     unit_price |-> Ratio(100, 3), amount |-> parse_f64_or_0(<<"1", "0", "0", ".", "0", "0">>)]
SomePackingItem ==
    [carton |-> <<"1", "-", "2">>, description |-> <<"A", " ", "P", "C">>,
     ctns |-> 2, qty |-> 3,
     net_wt_per_ctn |-> parse_f64_or_0(<<"2", "5", ".", "0">>),
     gross_wt_per_ctn |-> parse_f64_or_0(<<"3", "0", ".", "5">>),
     measurement |-> <<"5", "9", " ", "X", " ", "2", "5", " ", "X", " ", "2", "0", " ", "C", "M">>]
SomePackingTotals == PackingTotalsOf(<<"T", "O", "T", "A", "L", " ", "1", " ", "2", " ", "3", " ", "4">>)

\* the values of the fields of an InvoiceData: a String field may be
\* Some("") as well
InvoiceDatas ==
    {[vendor |-> vendor, buyer |-> buyer, invoice_no |-> no, invoice_date |-> date,
      currency |-> cur, total_amount |-> amt, total_pieces |-> pcs,
      ship_from |-> from, ship_to |-> to, shipping_method |-> method,
      line_items |-> items, packing_items |-> pitems, packing_totals |-> totals] :
        vendor \in {None, Some(<<>>), Some(<<"A", "C", "M", "E">>)},
        buyer \in {None, Some(<<"B", "o", "l", "t">>)},
        no \in {None, Some(<<"A", "-", "1">>)},
        date \in {None, Some(<<>>)},
        cur \in {None, Some(USD)},
        amt \in {None, Some(Zero)},
        pcs \in {None, Some(0)},
        from \in {None, Some(<<"S", "G">>)},
        to \in {None, Some(<<"T", "H">>)},
        method \in {None, Some(<<"S", "E", "A">>)},
        items \in {<<>>, <<SomeLineItem>>},
        pitems \in {<<>>, <<SomePackingItem>>},
        totals \in {None, SomePackingTotals}}

\* invoice.coverage()
Coverage ==
    /\ ~hrec.covered.some
    /\ hrec' = [hrec EXCEPT !.covered = Some(coverage(hrec.invoice))]
    /\ UNCHANGED <<htext, pipeVars, classVars>>

InitCoverage ==
    /\ htext = <<>>
    /\ hrec \in {[invoice |-> r, covered |-> None] : r \in InvoiceDatas}
    /\ PipeIdle
    /\ StoreIdle
    /\ ClassIdle

NextCoverage == Coverage

SpecCoverage == InitCoverage /\ [][NextCoverage]_vars

\* the number of set scalar fields of a record
SetFields(r) == Cardinality({k \in ScalarFields : r[k].some})

\* C20: coverage() returns (f, 10), where f is the number of set fields
\* among the 10 scalar ones, so 0 <= f <= 10; the record with its
\* line_items, packing_items and packing_totals removed has the same
\* coverage.
C20_CoverageCountsScalars ==
    hrec.covered.some
        => LET r == hrec.invoice
               f == SetFields(r)
               bare == [r EXCEPT !.line_items = <<>>, !.packing_items = <<>>,
                                 !.packing_totals = None]
           IN /\ hrec.covered.v = <<f, 10>>
              /\ f \in 0..10
              /\ coverage(bare) = hrec.covered.v

\* C20 witness: a record with 3 set scalar fields, one of them Some(""),
\* a line item, a packing item and packing totals has coverage (3, 10).
C20_Witness ==
    /\ hrec.covered = Some(<<3, 10>>)
    /\ hrec.invoice.vendor = Some(<<>>)
    /\ hrec.invoice.line_items # <<>>
    /\ hrec.invoice.packing_items # <<>>
    /\ hrec.invoice.packing_totals.some

-----------------------------------------------------------------------------
(* MessageStore::generate_uid, src/src/message_db.rs, on two triples       *)
(* (message_id, date, user).                                               *)

MaxUidLen == 2     \* characters of a message_id or of a date

\* Sha256 of the bytes fed to the hasher, as lower-case hex.  SHA-256 is
\* taken to be free of collisions: the digest stands for the bytes hashed
\* and for nothing else.
sha256_hex(bytes) == [sha256 |-> bytes]

\* generate_uid: three hasher.update calls feed the bytes of message_id,
\* of date and of user one after the other, with nothing between them
generate_uid(message_id, date, user) == sha256_hex(message_id \o date \o user)

UidStrings == UNION {[1..n -> {"a", "b"}] : n \in 0..MaxUidLen}
UidUsers == {<<>>, <<"b">>, <<"u">>}
UidTriples == UidStrings \X UidStrings \X UidUsers

\* generate_uid on each of the two triples
GenerateUids ==
    /\ ~hrec.some
    /\ hrec' = Some([k \in 1..2 |->
                        generate_uid(htext[k][1], htext[k][2], htext[k][3])])
    /\ UNCHANGED <<htext, pipeVars, classVars>>

InitUid ==
    /\ htext \in UidTriples \X UidTriples
    /\ hrec = None
    /\ PipeIdle
    /\ StoreIdle
    /\ ClassIdle

NextUid == GenerateUids

SpecUid == InitUid /\ [][NextUid]_vars

\* C23 (as claimed): equal triples give equal uids and distinct triples
\* give distinct uids, also when the triples differ only in where
\* message_id ends and date begins.
C23_UidInjective ==
    hrec.some => ((htext[1] = htext[2]) <=> (hrec.v[1] = hrec.v[2]))

\* what does hold: equal triples give equal uids, and the uids differ
\* exactly when the concatenations message_id date user differ
UidOfConcatenation ==
    hrec.some
        => /\ htext[1] = htext[2] => hrec.v[1] = hrec.v[2]
           /\ (hrec.v[1] = hrec.v[2])
                <=> (htext[1][1] \o htext[1][2] \o htext[1][3]
                        = htext[2][1] \o htext[2][2] \o htext[2][3])

-----------------------------------------------------------------------------
(* Claims about documents without pages, under SpecClassify.               *)

\* C27: for a parsed document with zero pages the structural phase does
\* not return ScannedImage: the textual phase runs, the verdict is Text or
\* ScannedImage, and it is the verdict of a one-page text document with
\* the same outcome of text extraction.
C27_ZeroPagesInconclusive ==
    (cverdict.some /\ cdoc.load_ok /\ Len(cdoc.pages) = 0)
        => /\ Verdict.structural
           /\ Verdict.textual
           /\ Verdict.tag \in {"Text", "ScannedImage"}
           /\ Verdict = extract_text_from_pdf(Doc(TRUE, <<FontPage>>, cdoc.text))

\* C27 witness: a parsed document without pages whose text extraction gave
\* enough text has been classified Text.
C27_Witness ==
    /\ cverdict.some
    /\ cdoc.load_ok
    /\ Len(cdoc.pages) = 0
    /\ Verdict.tag = "Text"

-----------------------------------------------------------------------------
(* generic::extract on texts with an invoice section and a packing         *)
(* section: descriptions, quantities, the marker, the CARTON header, rows. *)

MaxSectionTokens == 3     \* tokens of a text with sections

SectionTokens == {
    <<"A", " ", "P", "C", " ", "3", " ", "P", "I", "E", "C", "E", ".", " ">>,
    <<"C", " ", "P", "C", ".", " ">>,
    Repeat("dotless_i", 13),
    PACKING_LIST \o <<" ">>,
    CARTON \o <<" ">>,
    <<"1", "-", "2", " ", "5", " ", "1", "0", "0", " ", "2", "5", ".", "0", " ",
      "3", "0", ".", "5", " ", "5", "9", " ", "X", " ", "2", "5", " ", "X", " ",
      "2", "0", " ", "C", "M", ".", " ">>}

SectionTexts ==
    {Flatten(ws) : ws \in UNION {[1..n -> SectionTokens] : n \in 0..MaxSectionTokens}}

\* generic::extract(text)
ExtractSections ==
    /\ ~hrec.some
    /\ hrec' = Some(extract(htext))
    /\ UNCHANGED <<htext, pipeVars, classVars>>

InitSections ==
    /\ htext \in SectionTexts
    /\ hrec = None
    /\ PipeIdle
    /\ StoreIdle
    /\ ClassIdle

NextSections == ExtractSections

SpecSections == InitSections /\ [][NextSections]_vars

\* the matches of desc_re and of qty_re in the text before the marker
DescriptionMatches == captures_iter(desc_re, BeforeMarker(htext))
QuantityMatches == captures_iter(qty_re, BeforeMarker(htext))

\* line items i of the record are descriptions i and quantities i of sec
LineItemsAligned(items, sec, ds, qs) ==
    /\ Len(items) = Len(ds)
    /\ \A i \in DOMAIN items :
        /\ items[i].description = str_trim(CapText(sec, ds[i], 1))
        /\ i <= Len(qs) => items[i].qty = parse_u32(CapText(sec, qs[i], 1))
        /\ i > Len(qs) => /\ items[i].qty = 0
                          /\ items[i].unit_price = Ratio(0, 1)
                          /\ items[i].amount = Zero

\* C25 (as claimed): when extract returns, there are as many line items as
\* descriptions in the invoice section (the text before the marker); item
\* i carries description i and quantity i of that section; an item whose
\* index has no quantity has qty 0, unit_price 0 and amount 0.
C25_IndexAligned ==
    (hrec.some /\ ~hrec.v.panicked)
        => LineItemsAligned(hrec.v.line_items, BeforeMarker(htext),
                            DescriptionMatches, QuantityMatches)

\* TRUE iff the text has a character whose upper case has another length
ShiftsOffsets(text) == \E i \in DOMAIN text : text[i] = "dotless_i"

\* what does hold: the alignment, on the texts whose byte offsets are the
\* same in the text and in its upper case
AlignedWithoutShift ==
    (hrec.some /\ ~ShiftsOffsets(htext))
        => /\ ~hrec.v.panicked
           /\ LineItemsAligned(hrec.v.line_items, BeforeMarker(htext),
                               DescriptionMatches, QuantityMatches)

\* a description without a quantity at its index, and quantities past the
\* last description, both occur
UnevenLists ==
    /\ hrec.some
    /\ ~hrec.v.panicked
    /\ Len(hrec.v.line_items) = 2
    /\ Len(QuantityMatches) = 1
    /\ hrec.v.line_items[1].qty = 3
    /\ hrec.v.line_items[1].description = <<"C", " ", "P", "C">>
    /\ hrec.v.line_items[2].qty = 0

\* the position of the first CARTON header of sec, 0 when it has none
CartonIndex(sec) ==
    LET hits == {i \in 1..Len(sec) : LitAt(sec, CARTON, TRUE, i)}
    IN IF hits = {} THEN 0 ELSE CHOOSE x \in hits : \A y \in hits : x <= y

\* packing items i of the record are rows i of data, with descriptions i
\* and measurements i of sec
PackingItemsAligned(items, sec, data, rows, ds, ms) ==
    /\ Len(items) = Len(rows)
    /\ \A i \in DOMAIN items :
        /\ items[i].carton = str_trim(CapText(data, rows[i], 1))
        /\ items[i].ctns = parse_u32(CapText(data, rows[i], 2))
        /\ items[i].qty = parse_u32(CapText(data, rows[i], 3))
        /\ items[i].description =
               (IF i <= Len(ds) THEN str_trim(CapText(sec, ds[i], 1)) ELSE <<>>)
        /\ items[i].measurement =
               (IF i <= Len(ms) THEN str_trim(CapText(sec, ms[i], 1)) ELSE <<>>)

RowsAligned(items, sec, data) ==
    PackingItemsAligned(items, sec, data, captures_iter(row_re, data),
                        captures_iter(desc_re, sec), captures_iter(meas_re, sec))

\* C26 (as claimed): when extract returns, the packing items are the rows
\* located after the CARTON header of the packing section (the text from
\* the marker on): none without a marker, none without a header; row i is
\* paired with description i and measurement i of the packing section,
\* with the empty string where the index is missing.
C26_RowsAfterCarton ==
    (hrec.some /\ ~hrec.v.panicked)
        => IF MarkerIndex(htext) = 0 \/ CartonIndex(FromMarker(htext)) = 0
           THEN hrec.v.packing_items = <<>>
           ELSE RowsAligned(hrec.v.packing_items, FromMarker(htext),
                            Suffix(FromMarker(htext),
                                   CartonIndex(FromMarker(htext)) - 1))

\* what does hold: without a shift of offsets the rows are taken from the
\* header on, and from the whole packing section when it has no header
RowsWithoutShift ==
    (hrec.some /\ ~ShiftsOffsets(htext))
        => IF MarkerIndex(htext) = 0
           THEN hrec.v.packing_items = <<>>
           ELSE RowsAligned(hrec.v.packing_items, FromMarker(htext),
                            IF CartonIndex(FromMarker(htext)) = 0
                            THEN FromMarker(htext)
                            ELSE Suffix(FromMarker(htext),
                                        CartonIndex(FromMarker(htext)) - 1))

\* a packing section without a CARTON header yields a packing item
RowWithoutHeader ==
    /\ htext = PACKING_LIST \o <<" ">> \o
               <<"1", "-", "2", " ", "5", " ", "1", "0", "0", " ", "2", "5", ".", "0", " ",
                 "3", "0", ".", "5", " ", "5", "9", " ", "X", " ", "2", "5", " ", "X", " ",
                 "2", "0", " ", "C", "M", ".", " ">>
    /\ hrec.some
    /\ ~hrec.v.panicked
    /\ Len(hrec.v.packing_items) = 1
    /\ hrec.v.packing_items[1].carton = <<"1", "-", "2">>

\* a description before the marker is lost after a shift of offsets
DescriptionLost ==
    /\ htext = Repeat("dotless_i", 13) \o
               <<"A", " ", "P", "C", " ", "3", " ", "P", "I", "E", "C", "E", ".", " ">> \o
               PACKING_LIST \o <<" ">>
    /\ hrec.some
    /\ ~hrec.v.panicked
    /\ Len(DescriptionMatches) = 1
    /\ hrec.v.line_items = <<>>

-----------------------------------------------------------------------------
(* Claims about the store across the phases of process_pdfs, under Spec.   *)

\* C22 (as claimed): an attachment's extracted_text is populated only when
\* its content_type is "text"; rows classified "scanned" or "error" have
\* no extracted_text.
C22_TextOnlyWhenText ==
    \A i \in DOMAIN atts :
        /\ atts[i].extracted_text.some => atts[i].content_type = "text"
        /\ atts[i].content_type \in {"scanned", "error"}
               => ~atts[i].extracted_text.some

\* what does hold: "scanned" rows have no text, "text" rows have one, and
\* "error" rows carry the error message in extracted_text
ErrorRowsCarryMessage ==
    \A i \in DOMAIN atts :
        /\ atts[i].content_type = "scanned" => ~atts[i].extracted_text.some
        /\ atts[i].content_type = "text" => atts[i].extracted_text.some
        /\ atts[i].content_type = "error" => atts[i].extracted_text = Some(ErrText)
        /\ atts[i].is_processed <=> atts[i].content_type # "NULL"

\* the ids of a list
Ids(list) == {list[k] : k \in DOMAIN list}

\* a step that starts process_pdfs
StartsRun == pc = "idle" /\ entry' = "process_pdfs"

\* C24: over any number of runs, a run classifies only attachments with
\* is_processed = 0, sets their flag, and no step changes the row of an
\* attachment that is processed: each attachment is classified at most
\* once and its content_type and extracted_text never change afterwards.
C24_ClassifiedOnce ==
    [][/\ StartsRun =>
            /\ \A i \in Ids(unprocessed') : ~atts[i].is_processed
            /\ \A i \in Ids(unprocessed') : atts'[i].is_processed
            /\ \A i \in DOMAIN atts \ Ids(unprocessed') : atts'[i] = atts[i]
       /\ ~StartsRun => unprocessed' = unprocessed
       /\ \A i \in DOMAIN atts :
            atts[i].is_processed =>
                /\ atts'[i].is_processed
                /\ atts'[i].content_type = atts[i].content_type
                /\ atts'[i].extracted_text = atts[i].extracted_text]_vars

\* C24 witness: a later run of process_pdfs on a classified store of two
\* attachments found nothing to classify.
C24_Witness ==
    /\ entry = "process_pdfs"
    /\ Len(atts) = 2
    /\ unprocessed = <<>>
    /\ atts[1].content_type = "text"
    /\ atts[2].content_type = "error"
    /\ \A i \in DOMAIN atts : atts[i].is_processed

\* the batch of run_llm_extraction failed at endpoint resolution or at the
\* health probe
BatchFailed ==
    \/ backend = "Remote" /\ ~api_key
    \/ backend = "Ollama" /\ health \in {"status", "transport"}

ClassifiedRow(r) ==
    IF r.is_processed THEN r
    ELSE LET c == extract_text_from_pdf(r.pdf_data)
         IN [pdf_data |-> r.pdf_data,
             is_processed |-> TRUE,
             content_type |-> CASE c.tag = "Text" -> "text"
                                [] c.tag = "ScannedImage" -> "scanned"
                                [] OTHER -> "error",
             extracted_text |-> IF c.tag = "ScannedImage" THEN None
                                ELSE Some(c.text)]

\* C29: the store changes only in the classification phase at the start
\* of process_pdfs, to the classified store; no later step of the run
\* (heuristic pass, LLM batch, return) and no other entry point writes to
\* it, and a row holds no extraction result or source.
C29_ExtractionLeavesStore ==
    /\ [][IF StartsRun
          THEN atts' = [i \in DOMAIN atts |-> ClassifiedRow(atts[i])]
          ELSE atts' = atts]_vars
    /\ [](\A i \in DOMAIN atts :
            DOMAIN atts[i] = {"pdf_data", "is_processed", "content_type",
                              "extracted_text"})

\* C29 witness: process_pdfs has finished after an LLM batch with a
\* completion and the store is the classified store.
C29_Witness ==
    /\ entry = "process_pdfs"
    /\ pc = "done"
    /\ llm_res # <<>>
    /\ Len(atts) = 2
    /\ \A i \in DOMAIN atts : atts[i] = ClassifiedRow(atts[i]) /\ atts[i].is_processed

-----------------------------------------------------------------------------
(* The fetch phase on the store: filter::fetch_and_store and the writes   *)
(* of MessageStore on the messages table.                                  *)

MaxFetch == 2      \* messages of one fetch_and_store call
MaxStored == 2     \* rows of the attachments table

FetchUser == <<"u">>
UNKNOWN == <<"u", "n", "k", "n", "o", "w", "n">>

\* a fetched message: its Message-Id, its Date header, its content (from,
\* subject, plain text, html) and the data of its attachments (None when
\* the data was not fetched)
Fetched(id, date, content, attachments) ==
    [message_id |-> id, date |-> date, content |-> content,
     attachments |-> attachments]

\* messages returned by fetch_msgs. The first two have equal uids; the
\* third is the first one fetched again with another content.
FetchedMessages ==
    {Fetched(<<"a">>, Some(<<"b", "b">>), Some("v1"), <<Some(TextDoc)>>),
     Fetched(<<"a", "b">>, Some(<<"b">>), Some("v2"), <<>>),
     Fetched(<<"a">>, Some(<<"b", "b">>), None, <<None>>),
     Fetched(<<"c">>, None, Some("v1"), <<None, Some(ScanDoc)>>)}

FetchBatches == UNION {[1..n -> FetchedMessages] : n \in 0..MaxFetch}

\* date = msg.date.as_ref().unwrap_or(&unknown)
DateOf(msg) == IF msg.date.some THEN msg.date.v ELSE UNKNOWN

UidOf(msg) == generate_uid(msg.message_id, DateOf(msg), FetchUser)

\* fetch_and_store: the StoredMessage built from a fetched message
StoredMessage(msg) ==
    [uid |-> UidOf(msg),
     message_id |-> msg.message_id,
     user |-> FetchUser,
     date |-> DateOf(msg),
     from_addr |-> msg.content,
     subject |-> msg.content,
     plain_text |-> msg.content,
     html |-> msg.content,
     has_attachments |-> msg.attachments # <<>>,
     is_processed |-> FALSE]

\* a variant of upsert_message that replaces the row (INSERT OR REPLACE)
UpsertReplaces(messages, m) ==
    [u \in DOMAIN messages \cup {m.uid} |-> IF u = m.uid THEN m ELSE messages[u]]

\* MessageStore::upsert_message: INSERT .. ON CONFLICT(uid) DO UPDATE SET
\* from_addr, subject, plain_text, html, has_attachments
upsert_message(messages, m) ==
    IF m.uid \in DOMAIN messages
    THEN [messages EXCEPT ![m.uid] =
              [@ EXCEPT !.from_addr = m.from_addr,
                        !.subject = m.subject,
                        !.plain_text = m.plain_text,
                        !.html = m.html,
                        !.has_attachments = m.has_attachments]]
    ELSE [u \in DOMAIN messages \cup {m.uid} |->
              IF u = m.uid THEN m ELSE messages[u]]

\* MessageStore::insert_attachment: the INSERT binds content_type, NULL for
\* None, which a NOT NULL column rejects
insert_attachment(d, a, row) ==
    IF row.content_type = "NULL" /\ ~d.nullable_content_type
    THEN [ok |-> FALSE, atts |-> a]
    ELSE [ok |-> TRUE, atts |-> Append(a, row)]

RECURSIVE StoreAttachments(_, _, _)
RECURSIVE StoreNext(_, _, _)
\* fetch_and_store: for attachment in &msg.attachments
StoreAttachments(d, a, list) ==
    IF list = <<>> THEN [ok |-> TRUE, atts |-> a]
    ELSE IF ~Head(list).some THEN StoreAttachments(d, a, Tail(list))
    ELSE StoreNext(d, insert_attachment(d, a, Row(Head(list).v)), Tail(list))

\* the ? after db.insert_attachment
StoreNext(d, r, rest) == IF r.ok THEN StoreAttachments(d, r.atts, rest) ELSE r

Returned(d, a, r) == [db |-> d, atts |-> a, ret |-> r]

RECURSIVE StoreMessages(_, _, _, _)
RECURSIVE StoreRest(_, _, _, _)
RECURSIVE StoreCounted(_, _, _, _)
\* fetch_and_store: for msg in &msgs
StoreMessages(d, a, msgs, count) ==
    IF msgs = <<>> THEN Returned(d, a, [ok |-> TRUE, count |-> count])
    ELSE StoreRest([d EXCEPT !.messages = upsert_message(@, StoredMessage(Head(msgs)))],
                   a, msgs, count)

StoreRest(d, a, msgs, count) ==
    StoreCounted(d, StoreAttachments(d, a, Head(msgs).attachments), msgs, count)

StoreCounted(d, r, msgs, count) ==
    IF r.ok THEN StoreMessages(d, r.atts, Tail(msgs), count + 1)
    ELSE Returned(d, r.atts, [ok |-> FALSE])

\* the attachments of a batch whose data was fetched
FetchedData(msgs) ==
    UNION {{m.attachments[j].v :
                j \in {x \in DOMAIN m.attachments : m.attachments[x].some}} :
            m \in Ids(msgs)}

RECURSIVE DataCount(_)
DataCount(msgs) ==
    IF msgs = <<>> THEN 0
    ELSE Len(SelectSeq(Head(msgs).attachments, LAMBDA o : o.some))
         + DataCount(Tail(msgs))

storeFrame == <<backend, api_key, unprocessed, entry, pc, todo, net, heur_run,
                llm_res, ret, llm_reads, health, classVars, heurVars>>

\* filter::fetch_and_store with fetch_msgs returning msgs
FetchAndStore(msgs) ==
    /\ Len(atts) + DataCount(msgs) <= MaxStored
    /\ db' = StoreMessages(db, atts, msgs, 0).db
    /\ atts' = StoreMessages(db, atts, msgs, 0).atts
    /\ call' = [op |-> "fetch_and_store", msgs |-> msgs,
                ret |-> StoreMessages(db, atts, msgs, 0).ret]
    /\ UNCHANGED storeFrame

\* MessageStore::mark_message_as_processed(uid)
MarkMessageAsProcessed(uid) ==
    /\ db' = [db EXCEPT !.messages = [@ EXCEPT ![uid] = [@ EXCEPT !.is_processed = TRUE]],
                        !.processed_messages = @ \cup {uid}]
    /\ call' = [op |-> "mark_message_as_processed", uid |-> uid]
    /\ UNCHANGED <<atts, storeFrame>>

InitStore ==
    /\ PipeIdle
    /\ db \in {MessageStore_new(FALSE), MessageStore_new(TRUE)}
    /\ call = NoCall
    /\ ClassIdle
    /\ HeurIdle

NextStore ==
    \/ \E msgs \in FetchBatches : FetchAndStore(msgs)
    \/ \E uid \in DOMAIN db.messages : MarkMessageAsProcessed(uid)

SpecStore == InitStore /\ [][NextStore]_vars

\* a step of fetch_and_store
FetchStep == call'.op = "fetch_and_store"

\* every attachment of the batch whose data was fetched has gained a row
\* that get_unprocessed_attachments returns
FetchAccepted ==
    /\ call'.ret = [ok |-> TRUE, count |-> Len(call'.msgs)]
    /\ Len(atts') = Len(atts) + DataCount(call'.msgs)
    /\ \A d \in FetchedData(call'.msgs) :
          \E i \in Ids(get_unprocessed_attachments(atts')) \ DOMAIN atts :
              atts'[i].pdf_data = d
    /\ \A k \in DOMAIN call'.msgs : UidOf(call'.msgs[k]) \in DOMAIN db'.messages

\* C21 (as claimed): on a freshly created store fetch_and_store stores
\* each fetched message with its PDF attachments: every attachment whose
\* data was fetched gets one new row, returned by
\* get_unprocessed_attachments, and the call returns the number of
\* messages.
C21_FreshStoreAccepts ==
    [][(FetchStep /\ ~db.nullable_content_type) => FetchAccepted]_vars

\* what does hold: on a store whose content_type column came from the
\* migration every insert is accepted; on a freshly created store the
\* call returns Err at the first attachment with data, after the upsert of
\* its message, and the attachments table stays empty
MigratedStoreAccepts ==
    [][FetchStep =>
          IF db.nullable_content_type THEN FetchAccepted
          ELSE /\ atts' = <<>>
               /\ call'.ret.ok <=> DataCount(call'.msgs) = 0]_vars

\* a freshly created store after a failed fetch_and_store: the message of
\* the rejected attachment is stored, no attachment is
FreshStoreRejected ==
    /\ ~db.nullable_content_type
    /\ call.op = "fetch_and_store"
    /\ call.ret = [ok |-> FALSE]
    /\ DataCount(call.msgs) = 1
    /\ atts = <<>>
    /\ UidOf(call.msgs[1]) \in DOMAIN db.messages

\* the last message of a batch with the uid
LastWith(msgs, uid) ==
    msgs[CHOOSE k \in DOMAIN msgs :
            /\ UidOf(msgs[k]) = uid
            /\ \A j \in DOMAIN msgs : UidOf(msgs[j]) = uid => j <= k]

\* the row of an existing uid after an upsert of m: content from m, key
\* columns and flag from the row
Updated(row, m) ==
    [uid |-> row.uid, message_id |-> row.message_id, user |-> row.user,
     date |-> row.date, is_processed |-> row.is_processed,
     from_addr |-> m.content, subject |-> m.content, plain_text |-> m.content,
     html |-> m.content, has_attachments |-> m.attachments # <<>>]

\* C30: fetch_and_store on messages whose uid already exists updates only
\* from_addr, subject, plain_text, html and has_attachments of their rows;
\* is_processed, message_id, user and date of every existing row, the
\* processed_messages table and the existing attachment rows are left
\* unchanged, so a processed message is never reset to unprocessed.
C30_UpsertKeepsProcessed ==
    [][FetchStep =>
          /\ db'.processed_messages = db.processed_messages
          /\ \A i \in DOMAIN atts : atts'[i] = atts[i]
          /\ \A uid \in DOMAIN db.messages :
                /\ uid \in DOMAIN db'.messages
                /\ db'.messages[uid].is_processed = db.messages[uid].is_processed
                /\ db'.messages[uid].message_id = db.messages[uid].message_id
                /\ db'.messages[uid].user = db.messages[uid].user
                /\ db'.messages[uid].date = db.messages[uid].date
                /\ (call'.ret.ok /\ \E k \in DOMAIN call'.msgs :
                                       UidOf(call'.msgs[k]) = uid)
                     => db'.messages[uid] =
                            Updated(db.messages[uid], LastWith(call'.msgs, uid))
                /\ (\A k \in DOMAIN call'.msgs : UidOf(call'.msgs[k]) # uid)
                     => db'.messages[uid] = db.messages[uid]]_vars

\* C30 witness: a message marked processed was fetched again under the
\* same uid with another Message-Id and another content; its row has the
\* new content, the old Message-Id and is still processed.
C30_Witness ==
    /\ call.op = "fetch_and_store"
    /\ call.ret.ok
    /\ \E uid \in DOMAIN db.messages :
          /\ db.messages[uid].is_processed
          /\ uid \in db.processed_messages
          /\ \E k \in DOMAIN call.msgs :
                /\ UidOf(call.msgs[k]) = uid
                /\ db.messages[uid].message_id # call.msgs[k].message_id
                /\ db.messages[uid].from_addr = Some("v2")
                /\ call.msgs[k].content = Some("v2")

=============================================================================
